---- MODULE Spec2Model ----
(***************************************************************************)
(* A model of the wesellgadgets storefront: the REST handlers of the      *)
(* backend (orders, payments, products, categories) over the document     *)
(* store, and the client-side stores (cart, product list, admin           *)
(* management).                                                            *)
(*                                                                         *)
(* A handler of the backend is an async function: it runs up to an         *)
(* awaited database or Stripe call, and other requests run before it       *)
(* continues.  Every awaited call is one step of the model: the call       *)
(* together with the code that follows it up to the next awaited call.     *)
(* The code before the first awaited call (middleware, validators) reads   *)
(* only the request and runs in the step of the first call.  A request     *)
(* between two of its steps is kept in `pending` with its local variables. *)
(* The inputs of a request are the parameters of its first step; the       *)
(* next-state relations below draw them from small sets.  The last HTTP    *)
(* response is kept in `resp` (status code, message, and the ids of the    *)
(* documents the body carries).                                            *)
(*                                                                         *)
(* Money is counted in cents.  Timestamps (paidAt, deliveredAt,           *)
(* createdAt of the backend) are not modelled.                             *)
(***************************************************************************)
EXTENDS Integers, Sequences, FiniteSets, TLC

VARIABLES
    products,      \* Product collection: sequence, the index is the _id
    orders,        \* Order collection: sequence, the index is the _id
    intents,       \* Stripe's payment intents: sequence, the index is the id
    resp,          \* the last HTTP response sent by the backend
    categories,    \* Category collection of the backend: sequence of records
    emails,        \* ids of the orders whose confirmation email was sent
    pending,       \* the requests between two awaited calls, with their locals
    storeCategories, \* useProductStore.categories (client)
    storeProducts,   \* useProductStore.products (client)
    categoryToDelete, \* CategoryManagementPage: the id awaiting confirmation
    showDeleteModal,  \* CategoryManagementPage: the delete modal is open
    items,         \* useCartStore.items (client)
    isOpen,        \* useCartStore.isOpen (client)
    filters,       \* useProductStore.filters (client)
    sortBy,        \* useProductStore.sortBy (client)
    searchQuery,   \* useProductStore.searchQuery (client)
    filtered       \* the list the last getFilteredProducts() returned

vars == <<products, orders, intents, resp, categories, emails, pending,
          storeCategories, storeProducts, categoryToDelete, showDeleteModal,
          items, isOpen, filters, sortBy, searchQuery, filtered>>

backendVars == <<products, orders, intents, resp, categories, emails, pending>>
productStoreVars == <<storeCategories, storeProducts, filters, sortBy, searchQuery>>
pageVars == <<categoryToDelete, showDeleteModal>>
cartVars == <<items, isOpen>>
clientVars == <<productStoreVars, pageVars, cartVars, filtered>>

(***************************************************************************)
(* Bounds of the model.                                                    *)
(***************************************************************************)
MaxOrders == 1
MaxIntents == 1
MaxProducts == 2
MaxCatalogOrders == 1
MaxCategories == 3
MaxLines == 2
MaxQty == 2
MaxCheckoutOrders == 2
MaxStoreCategories == 3
MaxStoreProducts == 2
MaxClock == 2
MaxCartQty == 3
MaxMailOrders == 2
MaxInFlight == 2
MaxTotalsOrders == 2
MaxShopProducts == 3
MaxAccessOrders == 2

(***************************************************************************)
(* Requesters.  "anon" is a request without a valid token.                 *)
(***************************************************************************)
Customers == {"u1", "u2"}
Admins == {"admin"}
Users == Customers \cup Admins
Requesters == Users \cup {"anon"}

Role(u) == IF u \in Admins THEN "admin" ELSE "customer"

Min(S) == CHOOSE x \in S : \A y \in S : x <= y

\* an id parameter that is not a well-formed ObjectId
BadId == -1

(***************************************************************************)
(* The middleware of a route.  `auth` answers 401 unless the request      *)
(* carries a valid token; `adminAuth` answers 403 unless the              *)
(* authenticated user has role admin.  A chain runs in order and stops at  *)
(* the first middleware that answers; 0 means the handler is reached.      *)
(***************************************************************************)
MiddlewareStatus(m, u) ==
    CASE m = "auth" -> IF u \in Users THEN 0 ELSE 401
      [] m = "adminAuth" -> IF u \in Users /\ Role(u) = "admin" THEN 0 ELSE 403

RunChain(chain, u) ==
    LET failing == {i \in DOMAIN chain : MiddlewareStatus(chain[i], u) # 0}
    IN  IF failing = {} THEN 0 ELSE MiddlewareStatus(chain[Min(failing)], u)

DeniedMessage(code) == IF code = 401 THEN "Unauthorized" ELSE "Forbidden"

Response(op, code, msg, data) == [op |-> op, code |-> code, msg |-> msg, data |-> data]

Denied(op, code) == Response(op, code, DeniedMessage(code), {})

\* the answer of a list route: the documents of its find and the total of
\* its countDocuments
ListResponse(op, found, total) ==
    [op |-> op, code |-> 200, msg |-> "", data |-> found, total |-> total]

NoResponse == Response("none", 0, "", {})

(***************************************************************************)
(* Requests in flight.  A request that awaits a call is a record with     *)
(* `op` (its handler), `pc` (the call it awaits) and its locals.           *)
(***************************************************************************)
\* the sequence without its i-th element
Remove(seq, i) == [k \in 1 .. (Len(seq) - 1) |-> IF k < i THEN seq[k] ELSE seq[k + 1]]

\* request r awaits its next call
Await(r) == pending' = Append(pending, r)

\* the i-th request in flight awaits its next call as r
Continue(i, r) == pending' = [pending EXCEPT ![i] = r]

\* the i-th request in flight has been answered
Done(i) == pending' = Remove(pending, i)

\* the i-th request in flight is in handler op at call pc
At(i, op, pc) == i \in DOMAIN pending /\ pending[i].op = op /\ pending[i].pc = pc

InFlight(op) == Cardinality({i \in DOMAIN pending : pending[i].op = op})

(***************************************************************************)
(* Orders: src/backend/src/routes/orders.ts                                *)
(***************************************************************************)
OrderStatuses == {"pending", "processing", "shipped", "delivered", "cancelled"}

DefaultOrderStatus == "pending"

PaymentMethods == {"stripe", "paypal", "cash_on_delivery"}

OrdersPostChain == <<"auth">>
OrdersGetChain == <<"auth">>
OrdersGetByIdChain == <<"auth">>
OrdersAdminAllChain == <<"auth", "adminAuth">>
OrdersPutStatusChain == <<"auth", "adminAuth">>

ProductExists(p) == p \in DOMAIN products

\* the checks of one pass of the validation loop (orders.ts 41-53)
LineFails(line) ==
    \/ ~ProductExists(line.product)
    \/ ~products[line.product].isActive
    \/ products[line.product].stockCount < line.quantity

LineMessage(line) ==
    IF ~ProductExists(line.product) \/ ~products[line.product].isActive
    THEN "Product not found or inactive"
    ELSE "Insufficient stock"

OrderItem(line) ==
    [product |-> line.product,
     name |-> products[line.product].name,
     price |-> products[line.product].price,
     quantity |-> line.quantity]

FreeShippingFrom == 5000
ShippingFee == 999
TaxPercent == 8

\* a variant that ships free only above the threshold
ShippingPriceAbove(itemsPrice) == IF itemsPrice > FreeShippingFrom THEN 0 ELSE ShippingFee

ShippingPrice(itemsPrice) == IF itemsPrice >= FreeShippingFrom THEN 0 ELSE ShippingFee
TaxPrice(itemsPrice) == (itemsPrice * TaxPercent) \div 100

\* the document Order.create stores (orders.ts 67-82)
NewOrder(u, orderItems, itemsPrice, paymentMethod) ==
    [user |-> u,
     items |-> orderItems,
     paymentMethod |-> paymentMethod,
     itemsPrice |-> itemsPrice,
     taxPrice |-> TaxPrice(itemsPrice),
     shippingPrice |-> ShippingPrice(itemsPrice),
     totalPrice |-> itemsPrice + ShippingPrice(itemsPrice) + TaxPrice(itemsPrice),
     status |-> DefaultOrderStatus,
     isPaid |-> FALSE,
     paymentResult |-> 0,
     isDelivered |-> FALSE,
     trackingNumber |-> ""]

\* utils/email sendOrderConfirmationEmail: the email of the order is sent,
\* or the call throws and nothing is sent
SendOrderConfirmationEmail(order, throws) ==
    IF throws THEN emails ELSE emails \cup {order}

\* the locals of a POST /api/orders that has passed its validators: k is the
\* line the loop it is in has reached, order the _id of its stored order
OrderRequest(u, lines, paymentMethod) ==
    [op |-> "createOrder", pc |-> "find", u |-> u, lines |-> lines,
     paymentMethod |-> paymentMethod, k |-> 1, orderItems |-> <<>>,
     itemsPrice |-> 0, order |-> 0]

\* request r after the pass of the validation loop for its k-th line, when
\* the line passed its checks (orders.ts 55-65)
Checked(r) ==
    LET line == r.lines[r.k]
    IN  [r EXCEPT !.orderItems = Append(@, OrderItem(line)),
                  !.itemsPrice = @ + products[line.product].price * line.quantity,
                  !.k = IF r.k < Len(r.lines) THEN r.k + 1 ELSE 1,
                  !.pc = IF r.k < Len(r.lines) THEN "find" ELSE "create"]

\* a variant of the pass that takes the stock of a line as soon as the line
\* has passed its checks
ValidateItemWriteThrough(pend, i) ==
    LET r == pend[i]
        line == r.lines[r.k]
    IN  /\ UNCHANGED <<orders, intents, categories, emails>>
        /\ IF LineFails(line)
           THEN /\ resp' = Response("createOrder", 400, LineMessage(line), {line.product})
                /\ pending' = Remove(pend, i)
                /\ UNCHANGED products
           ELSE /\ pending' = [pend EXCEPT ![i] = Checked(r)]
                /\ products' = [products EXCEPT ![line.product].stockCount =
                                                    @ - line.quantity]
                /\ UNCHANGED resp

\* one pass of the validation loop (orders.ts 39-65) for the i-th request of
\* pend: await Product.findById for the product of line k, then its checks
ValidateItem(pend, i) ==
    LET r == pend[i]
        line == r.lines[r.k]
    IN  /\ UNCHANGED <<products, orders, intents, categories, emails>>
        /\ IF LineFails(line)
           THEN /\ resp' = Response("createOrder", 400, LineMessage(line), {line.product})
                /\ pending' = Remove(pend, i)
           ELSE /\ pending' = [pend EXCEPT ![i] = Checked(r)]
                /\ UNCHANGED resp

\* POST /api/orders: the middleware, the validators and the first pass of
\* the validation loop
CreateOrder(u, lines, addressOk, paymentMethod) ==
    LET denied == RunChain(OrdersPostChain, u)
    IN  IF denied # 0
        THEN /\ resp' = Denied("createOrder", denied)
             /\ UNCHANGED <<products, orders, intents, categories, emails, pending>>
        ELSE IF lines = <<>> \/ ~addressOk \/ paymentMethod \notin PaymentMethods
        THEN /\ resp' = Response("createOrder", 400, "Validation failed", {})
             /\ UNCHANGED <<products, orders, intents, categories, emails, pending>>
        ELSE ValidateItem(Append(pending, OrderRequest(u, lines, paymentMethod)),
                          Len(pending) + 1)

\* POST /api/orders: a later pass of the validation loop
CreateOrderFind(i) ==
    /\ At(i, "createOrder", "find")
    /\ ValidateItem(pending, i)

\* POST /api/orders: await Order.create (orders.ts 73-82)
CreateOrderCreate(i) ==
    /\ At(i, "createOrder", "create")
    /\ orders' = Append(orders, NewOrder(pending[i].u, pending[i].orderItems,
                                         pending[i].itemsPrice, pending[i].paymentMethod))
    /\ Continue(i, [pending[i] EXCEPT !.pc = "inc", !.order = Len(orders) + 1])
    /\ UNCHANGED <<products, intents, resp, categories, emails>>

\* the request after an awaited call of the stock loop (orders.ts 85-90)
Decremented(r) ==
    [r EXCEPT !.k = IF r.k < Len(r.orderItems) THEN r.k + 1 ELSE 1,
              !.pc = IF r.k < Len(r.orderItems) THEN "inc" ELSE "email"]

\* a variant of the stock loop that updates a product once, for the first
\* of its lines
CreateOrderIncFirstLine(i) ==
    /\ At(i, "createOrder", "inc")
    /\ LET r == pending[i]
           item == r.orderItems[r.k]
       IN  /\ products' = [p \in DOMAIN products |->
                  IF /\ p = item.product
                     /\ \A j \in 1 .. (r.k - 1) : r.orderItems[j].product # p
                  THEN [products[p] EXCEPT !.stockCount = @ - item.quantity]
                  ELSE products[p]]
           /\ Continue(i, Decremented(r))
    /\ UNCHANGED <<orders, intents, resp, categories, emails>>

\* POST /api/orders: await Product.findByIdAndUpdate with $inc for the k-th
\* item (orders.ts 85-90)
CreateOrderInc(i) ==
    /\ At(i, "createOrder", "inc")
    /\ LET r == pending[i]
           item == r.orderItems[r.k]
       IN  /\ products' = [p \in DOMAIN products |->
                  IF p = item.product
                  THEN [products[p] EXCEPT !.stockCount = @ - item.quantity]
                  ELSE products[p]]
           /\ Continue(i, Decremented(r))
    /\ UNCHANGED <<orders, intents, resp, categories, emails>>

\* a variant without the try/catch around the email: a throw reaches the
\* handler's catch
CreateOrderEmailUncaught(i, emailThrows) ==
    /\ At(i, "createOrder", "email")
    /\ emails' = SendOrderConfirmationEmail(pending[i].order, emailThrows)
    /\ IF emailThrows
       THEN /\ resp' = Response("createOrder", 500, "Server error while creating order", {})
            /\ Done(i)
       ELSE /\ Continue(i, [pending[i] EXCEPT !.pc = "populate"])
            /\ UNCHANGED resp
    /\ UNCHANGED <<products, orders, intents, categories>>

\* POST /api/orders: await sendOrderConfirmationEmail inside its try/catch
\* (orders.ts 93-98)
CreateOrderEmail(i, emailThrows) ==
    /\ At(i, "createOrder", "email")
    /\ emails' = SendOrderConfirmationEmail(pending[i].order, emailThrows)
    /\ Continue(i, [pending[i] EXCEPT !.pc = "populate"])
    /\ UNCHANGED <<products, orders, intents, resp, categories>>

\* POST /api/orders: await order.populate and the answer (orders.ts 100-106)
CreateOrderPopulate(i) ==
    /\ At(i, "createOrder", "populate")
    /\ resp' = Response("createOrder", 201, "Order created successfully",
                        {pending[i].order})
    /\ Done(i)
    /\ UNCHANGED <<products, orders, intents, categories, emails>>

\* the orders of the filter of GET /api/orders
OrdersOf(u) == {o \in DOMAIN orders : orders[o].user = u}

\* GET /api/orders: the middleware and await Order.find (orders.ts 119-129)
GetOrders(u) ==
    LET denied == RunChain(OrdersGetChain, u)
    IN  /\ UNCHANGED <<products, orders, intents, categories, emails>>
        /\ IF denied # 0
           THEN resp' = Denied("getOrders", denied) /\ UNCHANGED pending
           ELSE /\ Await([op |-> "getOrders", pc |-> "count", u |-> u,
                          found |-> OrdersOf(u)])
                /\ UNCHANGED resp

\* GET /api/orders: await Order.countDocuments and the answer (orders.ts
\* 131-143)
GetOrdersCount(i) ==
    /\ At(i, "getOrders", "count")
    /\ resp' = ListResponse("getOrders", pending[i].found,
                            Cardinality(OrdersOf(pending[i].u)))
    /\ Done(i)
    /\ UNCHANGED <<products, orders, intents, categories, emails>>

\* a variant without the ownership check
GetOrderAnyOwner(u, id) ==
    LET denied == RunChain(OrdersGetByIdChain, u)
    IN  /\ UNCHANGED <<products, orders, intents, categories, emails, pending>>
        /\ IF denied # 0
           THEN resp' = Denied("getOrder", denied)
           ELSE IF id \notin DOMAIN orders
           THEN resp' = Response("getOrder", 404, "Order not found", {})
           ELSE resp' = Response("getOrder", 200, "", {id})

\* GET /api/orders/:id
GetOrder(u, id) ==
    LET denied == RunChain(OrdersGetByIdChain, u)
    IN  /\ UNCHANGED <<products, orders, intents, categories, emails, pending>>
        /\ IF denied # 0
           THEN resp' = Denied("getOrder", denied)
           ELSE IF id \notin DOMAIN orders
           THEN resp' = Response("getOrder", 404, "Order not found", {})
           ELSE IF orders[id].user # u /\ Role(u) # "admin"
           THEN resp' = Response("getOrder", 403, "Access denied", {})
           ELSE resp' = Response("getOrder", 200, "", {id})

\* the orders of the filter of GET /api/orders/admin/all ("" is no status
\* filter)
OrdersWithStatus(status) ==
    {o \in DOMAIN orders : status = "" \/ orders[o].status = status}

\* GET /api/orders/admin/all: the middleware and await Order.find
\* (orders.ts 193-209)
GetAllOrders(u, status) ==
    LET denied == RunChain(OrdersAdminAllChain, u)
    IN  /\ UNCHANGED <<products, orders, intents, categories, emails>>
        /\ IF denied # 0
           THEN resp' = Denied("getAllOrders", denied) /\ UNCHANGED pending
           ELSE /\ Await([op |-> "getAllOrders", pc |-> "count", u |-> u,
                          status |-> status, found |-> OrdersWithStatus(status)])
                /\ UNCHANGED resp

\* GET /api/orders/admin/all: await Order.countDocuments and the answer
\* (orders.ts 211-223)
GetAllOrdersCount(i) ==
    /\ At(i, "getAllOrders", "count")
    /\ resp' = ListResponse("getAllOrders", pending[i].found,
                            Cardinality(OrdersWithStatus(pending[i].status)))
    /\ Done(i)
    /\ UNCHANGED <<products, orders, intents, categories, emails>>

\* the locals of a PUT /api/orders/:id/status that has loaded its order:
\* `loaded` is the document as Order.findById returned it
StatusRequest(u, id, status, trackingNumber) ==
    [op |-> "updateOrderStatus", pc |-> "save", u |-> u, id |-> id,
     status |-> status, trackingNumber |-> trackingNumber, loaded |-> orders[id]]

\* a variant that takes the status of the body without the isIn validator
UpdateOrderStatusUnvalidated(u, id, status, trackingNumber) ==
    LET denied == RunChain(OrdersPutStatusChain, u)
    IN  /\ UNCHANGED <<products, orders, intents, categories, emails>>
        /\ IF denied # 0
           THEN resp' = Denied("updateOrderStatus", denied) /\ UNCHANGED pending
           ELSE IF id \notin DOMAIN orders
           THEN /\ resp' = Response("updateOrderStatus", 404, "Order not found", {})
                /\ UNCHANGED pending
           ELSE /\ Await(StatusRequest(u, id, status, trackingNumber))
                /\ UNCHANGED resp

\* a variant with a transition rule: delivered and cancelled are final
UpdateOrderStatusFinalStates(u, id, status, trackingNumber) ==
    LET denied == RunChain(OrdersPutStatusChain, u)
    IN  /\ UNCHANGED <<products, orders, intents, categories, emails>>
        /\ IF denied # 0
           THEN resp' = Denied("updateOrderStatus", denied) /\ UNCHANGED pending
           ELSE IF status \notin OrderStatuses
           THEN /\ resp' = Response("updateOrderStatus", 400, "Validation failed", {})
                /\ UNCHANGED pending
           ELSE IF id \notin DOMAIN orders
           THEN /\ resp' = Response("updateOrderStatus", 404, "Order not found", {})
                /\ UNCHANGED pending
           ELSE IF orders[id].status \in {"delivered", "cancelled"}
           THEN /\ resp' = Response("updateOrderStatus", 400, "Invalid transition", {})
                /\ UNCHANGED pending
           ELSE /\ Await(StatusRequest(u, id, status, trackingNumber))
                /\ UNCHANGED resp

\* PUT /api/orders/:id/status: the middleware, the validator and await
\* Order.findById (orders.ts 236-257)
UpdateOrderStatus(u, id, status, trackingNumber) ==
    LET denied == RunChain(OrdersPutStatusChain, u)
    IN  /\ UNCHANGED <<products, orders, intents, categories, emails>>
        /\ IF denied # 0
           THEN resp' = Denied("updateOrderStatus", denied) /\ UNCHANGED pending
           ELSE IF status \notin OrderStatuses
           THEN /\ resp' = Response("updateOrderStatus", 400, "Validation failed", {})
                /\ UNCHANGED pending
           ELSE IF id \notin DOMAIN orders
           THEN /\ resp' = Response("updateOrderStatus", 404, "Order not found", {})
                /\ UNCHANGED pending
           ELSE /\ Await(StatusRequest(u, id, status, trackingNumber))
                /\ UNCHANGED resp

\* PUT /api/orders/:id/status: the assignments to the loaded document
\* (orders.ts 259-268), await order.save() and the answer (270-276).  An
\* assignment of the value the loaded document has marks nothing modified,
\* and save() writes the modified paths only.
UpdateOrderStatusSave(i) ==
    /\ At(i, "updateOrderStatus", "save")
    /\ LET r == pending[i]
       IN  /\ orders' = [orders EXCEPT
                  ![r.id].status =
                       IF r.status # r.loaded.status THEN r.status ELSE @,
                  ![r.id].trackingNumber =
                       IF r.trackingNumber # "" /\ r.trackingNumber # r.loaded.trackingNumber
                       THEN r.trackingNumber ELSE @,
                  ![r.id].isDelivered =
                       IF r.status = "delivered" /\ ~r.loaded.isDelivered THEN TRUE ELSE @]
           /\ resp' = Response("updateOrderStatus", 200,
                               "Order status updated successfully", {r.id})
    /\ Done(i)
    /\ UNCHANGED <<products, intents, categories, emails>>
(***************************************************************************)
(* Payments: src/backend/src/routes/payments.ts                            *)
(***************************************************************************)
PaymentsChain == <<"auth">>

MinAmount == 50
Currencies == {"usd", "eur", "gbp"}

\* stripe.paymentIntents.create (payments.ts 42-49) and the answer
CreateIntent(u, amount, orderId) ==
    /\ intents' = Append(intents,
          [status |-> "requires_payment_method", amount |-> amount,
           userId |-> u, orderId |-> orderId])
    /\ resp' = Response("createPaymentIntent", 200, "", {Len(intents) + 1})

\* a variant that looks the order up without comparing its user
OwnsOrderAnyOwner(u, orderId) == orderId \in DOMAIN orders

\* the order exists and is the caller's (payments.ts 34 and 98)
OwnsOrder(u, orderId) == orderId \in DOMAIN orders /\ orders[orderId].user = u

\* POST /api/payments/create-payment-intent (orderId 0 is no orderId): the
\* middleware, the validators and the first awaited call, which is
\* Order.findById when the body has an orderId and Stripe's create otherwise
CreatePaymentIntent(u, amount, currency, orderId) ==
    LET denied == RunChain(PaymentsChain, u)
    IN  /\ UNCHANGED <<products, orders, categories, emails>>
        /\ IF denied # 0
           THEN /\ resp' = Denied("createPaymentIntent", denied)
                /\ UNCHANGED <<intents, pending>>
           ELSE IF amount < MinAmount \/ currency \notin Currencies
           THEN /\ resp' = Response("createPaymentIntent", 400, "Validation failed", {})
                /\ UNCHANGED <<intents, pending>>
           ELSE IF orderId = 0
           THEN CreateIntent(u, amount, orderId) /\ UNCHANGED pending
           ELSE IF ~OwnsOrder(u, orderId)
           THEN /\ resp' = Response("createPaymentIntent", 403,
                                    "Order not found or access denied", {})
                /\ UNCHANGED <<intents, pending>>
           ELSE /\ Await([op |-> "createPaymentIntent", pc |-> "create", u |-> u,
                          amount |-> amount, orderId |-> orderId])
                /\ UNCHANGED <<intents, resp>>

\* POST /api/payments/create-payment-intent with an orderId: await
\* stripe.paymentIntents.create and the answer (payments.ts 42-57)
CreatePaymentIntentCreate(i) ==
    /\ At(i, "createPaymentIntent", "create")
    /\ CreateIntent(pending[i].u, pending[i].amount, pending[i].orderId)
    /\ Done(i)
    /\ UNCHANGED <<products, orders, categories, emails>>

\* Stripe, outside the backend: the customer pays, the intent succeeds
StripePaymentSucceeds(pi) ==
    /\ pi \in DOMAIN intents
    /\ intents[pi].status # "succeeded"
    /\ intents' = [intents EXCEPT ![pi].status = "succeeded"]
    /\ UNCHANGED <<products, orders, resp, categories, emails, pending>>

\* POST /api/payments/confirm-payment (paymentIntentId 0 is the empty string,
\* orderId BadId a string that is no ObjectId): the middleware, the
\* validators and await stripe.paymentIntents.retrieve (payments.ts 70-94);
\* retrieve throws for an id Stripe does not know
ConfirmPayment(u, paymentIntentId, orderId) ==
    LET denied == RunChain(PaymentsChain, u)
    IN  /\ UNCHANGED <<products, orders, intents, categories, emails>>
        /\ IF denied # 0
           THEN resp' = Denied("confirmPayment", denied) /\ UNCHANGED pending
           ELSE IF paymentIntentId = 0 \/ orderId = BadId
           THEN /\ resp' = Response("confirmPayment", 400, "Validation failed", {})
                /\ UNCHANGED pending
           ELSE IF paymentIntentId \notin DOMAIN intents
           THEN /\ resp' = Response("confirmPayment", 500,
                                    "Server error while confirming payment", {})
                /\ UNCHANGED pending
           ELSE IF intents[paymentIntentId].status # "succeeded"
           THEN /\ resp' = Response("confirmPayment", 400, "Payment not completed", {})
                /\ UNCHANGED pending
           ELSE /\ Await([op |-> "confirmPayment", pc |-> "find", u |-> u,
                          paymentIntentId |-> paymentIntentId, orderId |-> orderId])
                /\ UNCHANGED resp

\* POST /api/payments/confirm-payment: await Order.findById and the
\* ownership check (payments.ts 97-103)
ConfirmPaymentFind(i) ==
    /\ At(i, "confirmPayment", "find")
    /\ IF ~OwnsOrder(pending[i].u, pending[i].orderId)
       THEN /\ resp' = Response("confirmPayment", 403,
                                "Order not found or access denied", {})
            /\ Done(i)
       ELSE /\ Continue(i, [op |-> "confirmPayment", pc |-> "save", u |-> pending[i].u,
                             paymentIntentId |-> pending[i].paymentIntentId,
                             orderId |-> pending[i].orderId,
                             loaded |-> orders[pending[i].orderId]])
            /\ UNCHANGED resp
    /\ UNCHANGED <<products, orders, intents, categories, emails>>

\* POST /api/payments/confirm-payment: the assignments to the loaded
\* document (payments.ts 105-113), await order.save() and the answer
\* (115-121).  isPaid and status are modified only where the loaded document
\* has another value; paymentResult is a new object each time.  save()
\* writes the modified paths only.
ConfirmPaymentSave(i) ==
    /\ At(i, "confirmPayment", "save")
    /\ LET r == pending[i]
       IN  /\ orders' = [orders EXCEPT
                  ![r.orderId].isPaid = IF ~r.loaded.isPaid THEN TRUE ELSE @,
                  ![r.orderId].paymentResult = r.paymentIntentId,
                  ![r.orderId].status =
                       IF r.loaded.status # "processing" THEN "processing" ELSE @]
           /\ resp' = Response("confirmPayment", 200,
                               "Payment confirmed successfully", {r.orderId})
    /\ Done(i)
    /\ UNCHANGED <<products, intents, categories, emails>>

EventTypes == {"payment_intent.succeeded", "payment_intent.payment_failed", "charge.refunded"}

\* a variant of the webhook that marks the order paid and leaves its status
WebhookPaidOnly(secretConfigured, signatureOk, type, metadataOrderId) ==
    /\ UNCHANGED <<products, intents, categories, emails, pending>>
    /\ IF ~secretConfigured
       THEN /\ resp' = Response("webhook", 400, "Webhook secret not configured", {})
            /\ UNCHANGED orders
       ELSE IF ~signatureOk
       THEN /\ resp' = Response("webhook", 400, "Webhook Error", {})
            /\ UNCHANGED orders
       ELSE /\ resp' = Response("webhook", 200, "received", {})
            /\ IF /\ type = "payment_intent.succeeded"
                  /\ metadataOrderId # 0
                  /\ metadataOrderId \in DOMAIN orders
               THEN orders' = [orders EXCEPT ![metadataOrderId].isPaid = TRUE]
               ELSE UNCHANGED orders

\* POST /api/payments/webhook.  Stripe signs an event about one of its
\* intents; a request with a bad signature may carry anything.  The handler
\* awaits one call, Order.findByIdAndUpdate.
Webhook(secretConfigured, signatureOk, type, metadataOrderId) ==
    /\ UNCHANGED <<products, intents, categories, emails, pending>>
    /\ IF ~secretConfigured
       THEN /\ resp' = Response("webhook", 400, "Webhook secret not configured", {})
            /\ UNCHANGED orders
       ELSE IF ~signatureOk
       THEN /\ resp' = Response("webhook", 400, "Webhook Error", {})
            /\ UNCHANGED orders
       ELSE /\ resp' = Response("webhook", 200, "received", {})
            /\ IF /\ type = "payment_intent.succeeded"
                  /\ metadataOrderId # 0
                  /\ metadataOrderId \in DOMAIN orders
               THEN orders' = [orders EXCEPT
                        ![metadataOrderId].isPaid = TRUE,
                        ![metadataOrderId].status = "processing"]
               ELSE UNCHANGED orders

\* the events Stripe can sign: an event of type payment_intent.succeeded is
\* about an intent that succeeded and carries that intent's metadata
SignedEvent(type, metadataOrderId) ==
    type = "payment_intent.succeeded" =>
        \E pi \in DOMAIN intents :
            /\ intents[pi].status = "succeeded"
            /\ intents[pi].orderId = metadataOrderId

(***************************************************************************)
(* Products: src/backend/src/routes/products.ts                            *)
(***************************************************************************)
ProductsPostChain == <<"auth", "adminAuth">>
ProductsPutChain == <<"auth", "adminAuth">>
ProductsDeleteChainAuthOnly == <<"auth">>
ProductsDeleteChain == <<"auth", "adminAuth">>

\* String.prototype.toUpperCase on the SKUs of the model: a letter of a, b, c
\* and a digit of 1, 2, 3; a SKU in upper case and the empty string are
\* their own upper case
Upper(s) ==
    CASE s = "a1" -> "A1" [] s = "a2" -> "A2" [] s = "a3" -> "A3"
      [] s = "b1" -> "B1" [] s = "b2" -> "B2" [] s = "b3" -> "B3"
      [] s = "c1" -> "C1" [] s = "c2" -> "C2" [] s = "c3" -> "C3"
      [] OTHER -> s

\* a query parameter that is absent, and one that fails its validator
NoParam == -1
BadParam == -2

ProductFilter(p, minPrice, maxPrice) ==
    /\ products[p].isActive
    /\ minPrice # NoParam => products[p].price >= minPrice
    /\ maxPrice # NoParam => products[p].price <= maxPrice

\* the products of the filter of GET /api/products
ProductsOf(minPrice, maxPrice) ==
    {p \in DOMAIN products : ProductFilter(p, minPrice, maxPrice)}

\* GET /api/products: the validators and await Product.find (products.ts
\* 12-85)
GetProducts(minPrice, maxPrice) ==
    /\ UNCHANGED <<products, orders, intents, categories, emails>>
    /\ IF minPrice = BadParam \/ maxPrice = BadParam
       THEN /\ resp' = Response("getProducts", 400, "Validation failed", {})
            /\ UNCHANGED pending
       ELSE /\ Await([op |-> "getProducts", pc |-> "count", minPrice |-> minPrice,
                      maxPrice |-> maxPrice, found |-> ProductsOf(minPrice, maxPrice)])
            /\ UNCHANGED resp

\* GET /api/products: await Product.countDocuments and the answer
\* (products.ts 87-102)
GetProductsCount(i) ==
    /\ At(i, "getProducts", "count")
    /\ resp' = ListResponse("getProducts", pending[i].found,
                            Cardinality(ProductsOf(pending[i].minPrice, pending[i].maxPrice)))
    /\ Done(i)
    /\ UNCHANGED <<products, orders, intents, categories, emails>>

\* a variant that also answers for a product that is not active
GetProductAnyState(id) ==
    /\ UNCHANGED <<products, orders, intents, categories, emails, pending>>
    /\ IF id \notin DOMAIN products
       THEN resp' = Response("getProduct", 404, "Product not found", {})
       ELSE resp' = Response("getProduct", 200, "", {id})

\* GET /api/products/:id
GetProduct(id) ==
    /\ UNCHANGED <<products, orders, intents, categories, emails, pending>>
    /\ IF id \notin DOMAIN products \/ ~products[id].isActive
       THEN resp' = Response("getProduct", 404, "Product not found", {})
       ELSE resp' = Response("getProduct", 200, "", {id})

\* Product.findOne({sku}) finds a product, other than product `except`
SkuTaken(sku, except) ==
    \E p \in DOMAIN products \ {except} : products[p].sku = sku

\* POST /api/products: the middleware, the validators and await
\* Category.findById (products.ts 143-171)
CreateProduct(u, body) ==
    LET denied == RunChain(ProductsPostChain, u)
    IN  /\ UNCHANGED <<products, orders, intents, categories, emails>>
        /\ IF denied # 0
           THEN resp' = Denied("createProduct", denied) /\ UNCHANGED pending
           ELSE IF \/ body.price < 0 \/ body.stockCount < 0
                   \/ body.sku = "" \/ body.category = BadId
           THEN /\ resp' = Response("createProduct", 400, "Validation failed", {})
                /\ UNCHANGED pending
           ELSE IF body.category \notin DOMAIN categories
           THEN /\ resp' = Response("createProduct", 400, "Category not found", {})
                /\ UNCHANGED pending
           ELSE /\ Await([op |-> "createProduct", pc |-> "sku", u |-> u,
                          body |-> body, product |-> 0])
                /\ UNCHANGED resp

\* POST /api/products: await Product.findOne for the SKU (products.ts 174-180)
CreateProductSku(i) ==
    /\ At(i, "createProduct", "sku")
    /\ IF SkuTaken(Upper(pending[i].body.sku), 0)
       THEN /\ resp' = Response("createProduct", 400, "SKU already exists", {})
            /\ Done(i)
       ELSE /\ Continue(i, [pending[i] EXCEPT !.pc = "create"])
            /\ UNCHANGED resp
    /\ UNCHANGED <<products, orders, intents, categories, emails>>

\* POST /api/products: await Product.create (products.ts 182-185).  The
\* Product schema is not part of the source: with a unique index on sku
\* (skuUnique) the insert of a second product with the SKU throws.
CreateProductCreate(i, skuUnique) ==
    /\ At(i, "createProduct", "create")
    /\ LET body == pending[i].body
       IN  IF skuUnique /\ SkuTaken(Upper(body.sku), 0)
           THEN /\ resp' = Response("createProduct", 500,
                                    "Server error while creating product", {})
                /\ Done(i)
                /\ UNCHANGED products
           ELSE /\ products' = Append(products,
                      [name |-> body.name, sku |-> Upper(body.sku), price |-> body.price,
                       stockCount |-> body.stockCount, category |-> body.category,
                       isActive |-> TRUE])
                /\ Continue(i, [pending[i] EXCEPT !.pc = "populate",
                                                  !.product = Len(products) + 1])
                /\ UNCHANGED resp
    /\ UNCHANGED <<orders, intents, categories, emails>>

\* POST /api/products: await product.populate and the answer (products.ts
\* 187-193)
CreateProductPopulate(i) ==
    /\ At(i, "createProduct", "populate")
    /\ resp' = Response("createProduct", 201, "Product created successfully",
                        {pending[i].product})
    /\ Done(i)
    /\ UNCHANGED <<products, orders, intents, categories, emails>>

\* the update document of PUT /api/products/:id applied to a product: the
\* fields of the body, the sku in upper case
ApplyUpdate(product, body) ==
    [f \in DOMAIN product |->
        IF f \in DOMAIN body
        THEN (IF f = "sku" THEN Upper(body[f]) ELSE body[f])
        ELSE product[f]]

\* PUT /api/products/:id (body: the fields to change): the middleware and
\* await Product.findById (products.ts 206-217); the SKU is looked up when
\* the body has one that differs from the loaded product's
UpdateProduct(u, id, body) ==
    LET denied == RunChain(ProductsPutChain, u)
    IN  /\ UNCHANGED <<products, orders, intents, categories, emails>>
        /\ IF denied # 0
           THEN resp' = Denied("updateProduct", denied) /\ UNCHANGED pending
           ELSE IF id \notin DOMAIN products
           THEN /\ resp' = Response("updateProduct", 404, "Product not found", {})
                /\ UNCHANGED pending
           ELSE /\ Await([op |-> "updateProduct",
                          pc |-> IF /\ "sku" \in DOMAIN body
                                    /\ body.sku # ""
                                    /\ Upper(body.sku) # products[id].sku
                                 THEN "sku" ELSE "update",
                          u |-> u, id |-> id, body |-> body])
                /\ UNCHANGED resp

\* PUT /api/products/:id: await Product.findOne for the SKU (products.ts
\* 218-228)
UpdateProductSku(i) ==
    /\ At(i, "updateProduct", "sku")
    /\ IF SkuTaken(Upper(pending[i].body.sku), pending[i].id)
       THEN /\ resp' = Response("updateProduct", 400, "SKU already exists", {})
            /\ Done(i)
       ELSE /\ Continue(i, [pending[i] EXCEPT !.pc = "update"])
            /\ UNCHANGED resp
    /\ UNCHANGED <<products, orders, intents, categories, emails>>

\* PUT /api/products/:id: await Product.findByIdAndUpdate and the answer
\* (products.ts 230-240); skuUnique as for Product.create
UpdateProductUpdate(i, skuUnique) ==
    /\ At(i, "updateProduct", "update")
    /\ LET r == pending[i]
       IN  IF /\ skuUnique
              /\ "sku" \in DOMAIN r.body
              /\ SkuTaken(Upper(r.body.sku), r.id)
           THEN /\ resp' = Response("updateProduct", 500,
                                    "Server error while updating product", {})
                /\ UNCHANGED products
           ELSE /\ products' = [products EXCEPT ![r.id] = ApplyUpdate(@, r.body)]
                /\ resp' = Response("updateProduct", 200,
                                    "Product updated successfully", {r.id})
    /\ Done(i)
    /\ UNCHANGED <<orders, intents, categories, emails>>

\* DELETE /api/products/:id: the middleware and await Product.findById
\* (products.ts 253-261)
DeleteProduct(u, id) ==
    LET denied == RunChain(ProductsDeleteChain, u)
    IN  /\ UNCHANGED <<products, orders, intents, categories, emails>>
        /\ IF denied # 0
           THEN resp' = Denied("deleteProduct", denied) /\ UNCHANGED pending
           ELSE IF id \notin DOMAIN products
           THEN /\ resp' = Response("deleteProduct", 404, "Product not found", {})
                /\ UNCHANGED pending
           ELSE /\ Await([op |-> "deleteProduct", pc |-> "save", u |-> u, id |-> id,
                          loaded |-> products[id]])
                /\ UNCHANGED resp

\* DELETE /api/products/:id: the assignment to the loaded document (products.ts
\* 264), await product.save() and the answer (265-270).  isActive is
\* modified only when the loaded document is active; save() writes the
\* modified paths only.
DeleteProductSave(i) ==
    /\ At(i, "deleteProduct", "save")
    /\ products' = [products EXCEPT ![pending[i].id].isActive =
                                        IF pending[i].loaded.isActive THEN FALSE ELSE @]
    /\ resp' = Response("deleteProduct", 200, "Product deleted successfully", {})
    /\ Done(i)
    /\ UNCHANGED <<orders, intents, categories, emails>>

(***************************************************************************)
(* Categories: src/backend/src/routes/categories.ts.  The collection maps *)
(* the id of a category to its name (which is also its slug).              *)
(***************************************************************************)
CategoriesReadChain == <<>>
CategoriesWriteChain == <<"auth">>

Max(S) == CHOOSE x \in S : \A y \in S : y <= x

NewCategoryId == IF DOMAIN categories = {} THEN 1 ELSE Max(DOMAIN categories) + 1

\* GET /api/categories
GetAllCategories(u) ==
    LET denied == RunChain(CategoriesReadChain, u)
    IN  /\ UNCHANGED <<products, orders, intents, categories, emails, pending>>
        /\ IF denied # 0
           THEN resp' = Denied("getAllCategories", denied)
           ELSE resp' = Response("getAllCategories", 200, "", DOMAIN categories)

\* GET /api/categories/:id
GetCategoryById(u, id) ==
    LET denied == RunChain(CategoriesReadChain, u)
    IN  /\ UNCHANGED <<products, orders, intents, categories, emails, pending>>
        /\ IF denied # 0
           THEN resp' = Denied("getCategoryById", denied)
           ELSE IF id \notin DOMAIN categories
           THEN resp' = Response("getCategoryById", 404, "Category not found", {})
           ELSE resp' = Response("getCategoryById", 200, "", {id})

\* GET /api/categories/slug/:slug
GetCategoryBySlug(u, slug) ==
    LET denied == RunChain(CategoriesReadChain, u)
        found == {c \in DOMAIN categories : categories[c] = slug}
    IN  /\ UNCHANGED <<products, orders, intents, categories, emails, pending>>
        /\ IF denied # 0
           THEN resp' = Denied("getCategoryBySlug", denied)
           ELSE IF found = {}
           THEN resp' = Response("getCategoryBySlug", 404, "Category not found", {})
           ELSE resp' = Response("getCategoryBySlug", 200, "", {Min(found)})

\* POST /api/categories
CreateCategory(u, name) ==
    LET denied == RunChain(CategoriesWriteChain, u)
    IN  /\ UNCHANGED <<products, orders, intents, emails, pending>>
        /\ IF denied # 0
           THEN /\ resp' = Denied("createCategory", denied)
                /\ UNCHANGED categories
           ELSE /\ categories' = (NewCategoryId :> name) @@ categories
                /\ resp' = Response("createCategory", 201, "", {NewCategoryId})

\* PUT /api/categories/:id
UpdateCategory(u, id, name) ==
    LET denied == RunChain(CategoriesWriteChain, u)
    IN  /\ UNCHANGED <<products, orders, intents, emails, pending>>
        /\ IF denied # 0
           THEN /\ resp' = Denied("updateCategory", denied)
                /\ UNCHANGED categories
           ELSE IF id \notin DOMAIN categories
           THEN /\ resp' = Response("updateCategory", 404, "Category not found", {})
                /\ UNCHANGED categories
           ELSE /\ categories' = [categories EXCEPT ![id] = name]
                /\ resp' = Response("updateCategory", 200, "", {id})

\* DELETE /api/categories/:id
DeleteCategory(u, id) ==
    LET denied == RunChain(CategoriesWriteChain, u)
    IN  /\ UNCHANGED <<products, orders, intents, emails, pending>>
        /\ IF denied # 0
           THEN /\ resp' = Denied("deleteCategory", denied)
                /\ UNCHANGED categories
           ELSE IF id \notin DOMAIN categories
           THEN /\ resp' = Response("deleteCategory", 404, "Category not found", {})
                /\ UNCHANGED categories
           ELSE /\ categories' = [c \in DOMAIN categories \ {id} |-> categories[c]]
                /\ resp' = Response("deleteCategory", 200, "", {})

(***************************************************************************)
(* The client stores: src/src/store/index.ts                               *)
(***************************************************************************)
\* Array.prototype.filter is SelectSeq.

\* ---- useCartStore: items is a sequence of [product, quantity] ----
HasProduct(item, productId) == item.product.id = productId

\* a variant that overwrites the quantity of a product that is in the cart
addItemReplace(product, quantity) ==
    /\ items' = IF \E i \in DOMAIN items : HasProduct(items[i], product.id)
                THEN [i \in DOMAIN items |->
                        IF HasProduct(items[i], product.id)
                        THEN [items[i] EXCEPT !.quantity = quantity]
                        ELSE items[i]]
                ELSE Append(items, [product |-> product, quantity |-> quantity])
    /\ UNCHANGED isOpen

\* a variant that appends a pair whether or not the product is in the cart
addItemAppend(product, quantity) ==
    /\ items' = Append(items, [product |-> product, quantity |-> quantity])
    /\ UNCHANGED isOpen

addItem(product, quantity) ==
    /\ IF \E i \in DOMAIN items : HasProduct(items[i], product.id)
       THEN items' = [i \in DOMAIN items |->
                IF HasProduct(items[i], product.id)
                THEN [items[i] EXCEPT !.quantity = @ + quantity]
                ELSE items[i]]
       ELSE items' = Append(items, [product |-> product, quantity |-> quantity])
    /\ UNCHANGED isOpen

RemoveFrom(cart, productId) ==
    LET Other(item) == ~HasProduct(item, productId) IN SelectSeq(cart, Other)

removeItem(productId) ==
    /\ items' = RemoveFrom(items, productId)
    /\ UNCHANGED isOpen

updateQuantity(productId, quantity) ==
    IF quantity <= 0
    THEN removeItem(productId)
    ELSE /\ items' = [i \in DOMAIN items |->
                IF HasProduct(items[i], productId)
                THEN [items[i] EXCEPT !.quantity = quantity]
                ELSE items[i]]
         /\ UNCHANGED isOpen

clearCart ==
    /\ items' = <<>>
    /\ UNCHANGED isOpen

toggleCart ==
    /\ isOpen' = ~isOpen
    /\ UNCHANGED items

RECURSIVE TotalItemsOf(_)
TotalItemsOf(cart) ==
    IF cart = <<>> THEN 0 ELSE Head(cart).quantity + TotalItemsOf(Tail(cart))

RECURSIVE TotalPriceOf(_)
TotalPriceOf(cart) ==
    IF cart = <<>> THEN 0
    ELSE Head(cart).product.price * Head(cart).quantity + TotalPriceOf(Tail(cart))

getTotalItems == TotalItemsOf(items)
getTotalPrice == TotalPriceOf(items)


\* an object spread: {...a, ...b}
Spread(a, b) ==
    [f \in DOMAIN a \cup DOMAIN b |-> IF f \in DOMAIN b THEN b[f] ELSE a[f]]

(***************************************************************************)
(* useProductStore.  A string that is searched or compared is a sequence  *)
(* of one-letter strings.  createdAt is the instant of the date string.    *)
(***************************************************************************)
DefaultPriceRange == <<0, 500000>>
DefaultFilters ==
    [category |-> "", priceRange |-> DefaultPriceRange, condition |-> <<>>,
     brand |-> <<>>, inStock |-> FALSE]

\* String.prototype.toLowerCase
LowerLetter(c) == CASE c = "A" -> "a" [] c = "B" -> "b" [] OTHER -> c
toLowerCase(str) == [i \in DOMAIN str |-> LowerLetter(str[i])]

\* String.prototype.includes
includes(str, part) ==
    \E i \in 0 .. (Len(str) - Len(part)) : SubSeq(str, i + 1, i + Len(part)) = part

\* Array.prototype.includes
Contains(list, x) == \E i \in DOMAIN list : list[i] = x

\* String.prototype.localeCompare for letters: the letters decide, and the
\* case (lower case first) only between strings of the same letters
LetterOrder(c) == CASE c = "a" -> 1 [] c = "b" -> 2 [] OTHER -> 3
Sign(n) == IF n < 0 THEN -1 ELSE IF n > 0 THEN 1 ELSE 0
CompareLetters(a, b) ==
    LET n == IF Len(a) < Len(b) THEN Len(a) ELSE Len(b)
        d == {i \in 1 .. n : a[i] # b[i]}
    IN  IF d = {} THEN Sign(Len(a) - Len(b))
        ELSE Sign(LetterOrder(a[Min(d)]) - LetterOrder(b[Min(d)]))
localeCompare(a, b) ==
    LET d == {i \in DOMAIN a \cap DOMAIN b : a[i] # b[i]}
    IN  IF CompareLetters(toLowerCase(a), toLowerCase(b)) # 0
        THEN CompareLetters(toLowerCase(a), toLowerCase(b))
        ELSE IF d = {} THEN 0
        ELSE IF a[Min(d)] = LowerLetter(a[Min(d)]) THEN -1 ELSE 1

setProducts(newProducts) ==
    /\ storeProducts' = newProducts
    /\ UNCHANGED <<storeCategories, filters, sortBy, searchQuery, filtered>>

setCategories(newCategories) ==
    /\ storeCategories' = newCategories
    /\ UNCHANGED <<storeProducts, filters, sortBy, searchQuery, filtered>>

updateFilters(newFilters) ==
    /\ filters' = Spread(filters, newFilters)
    /\ UNCHANGED <<storeCategories, storeProducts, sortBy, searchQuery, filtered>>

setSortBy(newSortBy) ==
    /\ sortBy' = newSortBy
    /\ UNCHANGED <<storeCategories, storeProducts, filters, searchQuery, filtered>>

setSearchQuery(newSearchQuery) ==
    /\ searchQuery' = newSearchQuery
    /\ UNCHANGED <<storeCategories, storeProducts, filters, sortBy, filtered>>

\* the predicates of the filter passes of getFilteredProducts
MatchesSearch(product) ==
    \/ includes(toLowerCase(product.name), toLowerCase(searchQuery))
    \/ includes(toLowerCase(product.description), toLowerCase(searchQuery))
    \/ includes(toLowerCase(product.brand), toLowerCase(searchQuery))

InCategory(product) == product.category = filters.category

\* a variant whose upper end is exclusive
InPriceRangeBelowMax(product) ==
    product.price >= filters.priceRange[1] /\ product.price < filters.priceRange[2]

InPriceRange(product) ==
    product.price >= filters.priceRange[1] /\ product.price <= filters.priceRange[2]

HasCondition(product) == Contains(filters.condition, product.condition)
HasBrand(product) == Contains(filters.brand, product.brand)
IsInStock(product) == product.inStock

\* the comparators of the sort, by sortBy
Compare(a, b, by) ==
    CASE by = "name" -> localeCompare(a.name, b.name)
      [] by = "price-low" -> a.price - b.price
      [] by = "price-high" -> b.price - a.price
      [] by = "rating" -> b.rating - a.rating
      [] by = "newest" -> b.createdAt - a.createdAt
      [] OTHER -> 0

\* Array.prototype.sort with the comparator of `by`: a stable sort
RECURSIVE Sort(_, _)
Sort(list, by) ==
    IF list = <<>> THEN <<>>
    ELSE LET n == Len(list)
             x == list[n]
             sorted == Sort(SubSeq(list, 1, n - 1), by)
             k == Cardinality({i \in DOMAIN sorted : Compare(sorted[i], x, by) <= 0})
         IN  SubSeq(sorted, 1, k) \o <<x>> \o SubSeq(sorted, k + 1, n - 1)

SortKinds == {"name", "price-low", "price-high", "rating", "newest"}

\* the value getFilteredProducts() returns
FilteredProducts ==
    LET bySearch == IF searchQuery # <<>>
                    THEN SelectSeq(storeProducts, MatchesSearch) ELSE storeProducts
        byCategory == IF filters.category # ""
                      THEN SelectSeq(bySearch, InCategory) ELSE bySearch
        byPrice == SelectSeq(byCategory, InPriceRange)
        byCondition == IF Len(filters.condition) > 0
                       THEN SelectSeq(byPrice, HasCondition) ELSE byPrice
        byBrand == IF Len(filters.brand) > 0
                   THEN SelectSeq(byCondition, HasBrand) ELSE byCondition
        byStock == IF filters.inStock THEN SelectSeq(byBrand, IsInStock) ELSE byBrand
    IN  IF sortBy \in SortKinds THEN Sort(byStock, sortBy) ELSE byStock

getFilteredProducts ==
    /\ filtered' = FilteredProducts
    /\ UNCHANGED <<storeCategories, storeProducts, filters, sortBy, searchQuery>>

(***************************************************************************)
(* useAdminStore: its category and product actions read and replace the   *)
(* lists of useProductStore.  `now` is Date.now().                         *)
(***************************************************************************)
addCategory(categoryData, now) ==
    setCategories(Append(storeCategories, Spread(categoryData, [id |-> ToString(now)])))

updateCategory(id, categoryData) ==
    setCategories([i \in DOMAIN storeCategories |->
            IF storeCategories[i].id = id
            THEN Spread(storeCategories[i], categoryData)
            ELSE storeCategories[i]])

\* a variant that also removes the products of the category
deleteCategoryCascade(id) ==
    LET Other(category) == category.id # id
        Elsewhere(product) == product.category # id
    IN  /\ storeCategories' = SelectSeq(storeCategories, Other)
        /\ storeProducts' = SelectSeq(storeProducts, Elsewhere)
        /\ UNCHANGED <<filters, sortBy, searchQuery, filtered>>

deleteCategory(id) ==
    LET Other(category) == category.id # id
    IN  setCategories(SelectSeq(storeCategories, Other))

\* `now` is Date.now() and `created` the instant of the new Date() that
\* follows it
addProduct(productData, now, created) ==
    setProducts(Append(storeProducts,
        Spread(productData, [id |-> ToString(now), createdAt |-> created])))

updateProduct(id, productData) ==
    setProducts([i \in DOMAIN storeProducts |->
            IF storeProducts[i].id = id
            THEN Spread(storeProducts[i], productData)
            ELSE storeProducts[i]])

deleteProduct(id) ==
    LET Other(product) == product.id # id
    IN  setProducts(SelectSeq(storeProducts, Other))

\* ---- CategoryManagementPage (src/unnamed/part_000) ----
NoCategory == ""

handleDeleteCategory(id) ==
    /\ categoryToDelete' = id
    /\ showDeleteModal' = TRUE
    /\ UNCHANGED <<productStoreVars, filtered>>

closeDeleteModal ==
    /\ showDeleteModal' = FALSE
    /\ UNCHANGED <<categoryToDelete, productStoreVars, filtered>>

confirmDelete ==
    IF categoryToDelete # NoCategory
    THEN /\ deleteCategory(categoryToDelete)
         /\ showDeleteModal' = FALSE
         /\ categoryToDelete' = NoCategory
    ELSE UNCHANGED <<pageVars, productStoreVars, filtered>>

(***************************************************************************)
(* Initial states and inputs                                               *)
(***************************************************************************)
SeedCategories == 1 :> "phones"

SeedProducts ==
    << [name |-> "Phone A", sku |-> "A1", price |-> 2000, stockCount |-> 2, category |-> 1, isActive |-> TRUE] >>

SeedCheckoutProducts ==
    << [name |-> "Phone A", sku |-> "A1", price |-> 2000, stockCount |-> 2, category |-> 1, isActive |-> TRUE],
       [name |-> "Phone B", sku |-> "B2", price |-> 3000, stockCount |-> 2, category |-> 1, isActive |-> TRUE] >>

ClientInit ==
    /\ storeCategories = <<>>
    /\ storeProducts = <<>>
    /\ categoryToDelete = NoCategory
    /\ showDeleteModal = FALSE
    /\ items = <<>>
    /\ isOpen = FALSE
    /\ filters = DefaultFilters
    /\ sortBy = "newest"
    /\ searchQuery = <<>>
    /\ filtered = <<>>

\* the backend with a seeded catalog and no order yet
Init ==
    /\ products = SeedProducts
    /\ orders = <<>>
    /\ intents = <<>>
    /\ resp = NoResponse
    /\ categories = SeedCategories
    /\ emails = {}
    /\ pending = <<>>
    /\ ClientInit

\* the backend with two products in stock and no order yet
InitCheckout ==
    /\ products = SeedCheckoutProducts
    /\ orders = <<>>
    /\ intents = <<>>
    /\ resp = NoResponse
    /\ categories = SeedCategories
    /\ emails = {}
    /\ pending = <<>>
    /\ ClientInit

\* the backend with one category and no product yet
InitCatalog ==
    /\ products = <<>>
    /\ orders = <<>>
    /\ intents = <<>>
    /\ resp = NoResponse
    /\ categories = SeedCategories
    /\ emails = {}
    /\ pending = <<>>
    /\ ClientInit

OrderIdInputs == 1 .. (MaxOrders + 1)
IntentIdInputs == 0 .. (MaxIntents + 1)
ProductIdInputs == 1 .. (MaxProducts + 1)
StatusInputs == OrderStatuses \cup {"refunded"}
PaymentMethodInputs == {"stripe", "bitcoin"}

Line(p, q) == [product |-> p, quantity |-> q]
SingleLines == { <<Line(p, 1)>> : p \in ProductIdInputs } \cup {<<>>}
LineInputs == { Line(p, q) : p \in ProductIdInputs, q \in 1 .. MaxQty }
CheckoutLines == UNION { [1 .. n -> LineInputs] : n \in 0 .. MaxLines }

(***************************************************************************)
(* A step of the backend leaves the client stores alone, and a step of a  *)
(* client store leaves the backend and the other stores alone.  At most    *)
(* MaxInFlight requests are between two awaited calls at a time.           *)
(***************************************************************************)
Backend(A) == A /\ UNCHANGED clientVars
StoreStep(A) == A /\ UNCHANGED <<backendVars, pageVars, cartVars>>
PageStep(A) == A /\ UNCHANGED <<backendVars, cartVars>>
CartStep(A) == A /\ UNCHANGED <<backendVars, productStoreVars, pageVars, filtered>>

Room == Len(pending) < MaxInFlight

\* the orders stored or about to be stored
OrdersBegun ==
    Len(orders) + Cardinality({i \in DOMAIN pending :
                                  pending[i].op = "createOrder" /\ pending[i].order = 0})

\* the payment intents created or about to be created
IntentsBegun == Len(intents) + InFlight("createPaymentIntent")

\* the products stored or about to be stored
ProductsBegun ==
    Len(products) + Cardinality({i \in DOMAIN pending :
                                    pending[i].op = "createProduct" /\ pending[i].product = 0})

(***************************************************************************)
(* Spec: the order and payment flow (order creation, admin status         *)
(* updates, payment intents, confirm-payment, the Stripe webhook)          *)
(***************************************************************************)
AmountInputs == {10, 2000}
FlowCreators == {"u1", "anon"}
FlowPayers == {"u1", "u2", "anon"}
CurrencyInputs == {"usd", "jpy"}

Next ==
    \/ /\ Room /\ OrdersBegun < MaxOrders
       /\ \E u \in FlowCreators, lines \in SingleLines, pm \in PaymentMethodInputs :
            Backend(CreateOrder(u, lines, TRUE, pm))
    \/ \E i \in DOMAIN pending : Backend(CreateOrderCreate(i))
    \/ \E i \in DOMAIN pending : Backend(CreateOrderInc(i))
    \/ \E i \in DOMAIN pending : Backend(CreateOrderEmail(i, FALSE))
    \/ \E i \in DOMAIN pending : Backend(CreateOrderPopulate(i))
    \/ /\ Room
       /\ \E u \in Requesters, id \in OrderIdInputs, s \in StatusInputs :
            Backend(UpdateOrderStatus(u, id, s, ""))
    \/ \E i \in DOMAIN pending : Backend(UpdateOrderStatusSave(i))
    \/ /\ Room /\ IntentsBegun < MaxIntents
       /\ \E u \in FlowPayers, a \in AmountInputs, c \in CurrencyInputs, o \in 0 .. MaxOrders :
            Backend(CreatePaymentIntent(u, a, c, o))
    \/ \E i \in DOMAIN pending : Backend(CreatePaymentIntentCreate(i))
    \/ \E pi \in DOMAIN intents : Backend(StripePaymentSucceeds(pi))
    \/ /\ Room
       /\ \E u \in FlowPayers, pi \in IntentIdInputs, o \in OrderIdInputs \cup {BadId} :
            Backend(ConfirmPayment(u, pi, o))
    \/ \E i \in DOMAIN pending : Backend(ConfirmPaymentFind(i))
    \/ \E i \in DOMAIN pending : Backend(ConfirmPaymentSave(i))
    \/ \E sec \in BOOLEAN, sig \in BOOLEAN, type \in EventTypes, o \in 0 .. (MaxOrders + 1) :
            /\ sig => SignedEvent(type, o)
            /\ Backend(Webhook(sec, sig, type, o))

Spec == Init /\ [][Next]_vars

(***************************************************************************)
(* Properties of the order and payment flow                                *)
(***************************************************************************)
FiveLabels == {"pending", "processing", "shipped", "delivered", "cancelled"}

C1_StoredStatusIsALabel == \A o \in DOMAIN orders : orders[o].status \in FiveLabels

C1_InvalidStatusRejected ==
    resp'.op = "updateOrderStatus" =>
        \A u \in Requesters, id \in OrderIdInputs, s \in StatusInputs \ FiveLabels :
            UpdateOrderStatus(u, id, s, "") =>
                /\ orders' = orders
                /\ pending' = pending
                /\ Role(u) = "admin" => (resp'.code = 400 /\ resp'.data = {})

\* C1: the status of every stored order is always one of the five labels
\* pending, processing, shipped, delivered, cancelled, however the steps of
\* order creation, status updates, confirm-payment and the webhook
\* interleave; a status update with another status is answered at once,
\* changes no order and writes nothing later, and an admin gets 400 for it.
C1_StatusOneOfFive == []C1_StoredStatusIsALabel /\ [][C1_InvalidStatusRejected]_vars

\* C1 witness: an admin's status update was just rejected with 400 while a
\* paid order in status processing is stored and another status update is
\* between its read and its write.
C1_Witness ==
    /\ resp.op = "updateOrderStatus" /\ resp.code = 400
    /\ \E o \in DOMAIN orders : orders[o].isPaid /\ orders[o].status = "processing"
    /\ \E i \in DOMAIN pending : pending[i].op = "updateOrderStatus"

C2_Accepted(id, s) ==
    /\ Backend(UpdateOrderStatus("admin", id, s, ""))
    /\ resp' = resp
    /\ Len(pending') = Len(pending) + 1
    /\ pending'[Len(pending')].op = "updateOrderStatus"
    /\ pending'[Len(pending')].id = id
    /\ pending'[Len(pending')].status = s

C2_AlwaysAccepted ==
    Len(pending) < MaxInFlight =>
        \A id \in DOMAIN orders, s \in FiveLabels : ENABLED C2_Accepted(id, s)

\* C2 as claimed: the write of an admin's status update leaves the order
\* with exactly the requested status.
C2_StatusSetAsRequested ==
    [][\A i \in DOMAIN pending :
           UpdateOrderStatusSave(i) =>
               orders'[pending[i].id].status = pending[i].status]_vars

C2_SaveStep ==
    resp'.op = "updateOrderStatus" =>
        \A i \in DOMAIN pending :
            UpdateOrderStatusSave(i) =>
                LET r == pending[i]
                IN  /\ r.status \in FiveLabels
                    /\ resp'.code = 200 /\ resp'.data = {r.id}
                    /\ orders'[r.id].status =
                           IF r.status # r.loaded.status THEN r.status
                           ELSE orders[r.id].status
                    /\ orders[r.id].status = r.loaded.status =>
                           orders'[r.id].status = r.status
                    /\ \A o \in DOMAIN orders \ {r.id} : orders'[o] = orders[o]

\* C2 amended: for every stored order, whatever its status, and every one
\* of the five statuses, the admin's status update passes the handler's
\* checks (no transition rule refuses it) and its save is answered 200 and
\* leaves the other orders as they were.  The save stores exactly the
\* requested status when that differs from the status the handler loaded;
\* when it equals the loaded status the save does not write the status, so
\* the order has the requested status unless another request changed it
\* between the handler's load and its save.
C2_AnyStatusToAnyStatus == []C2_AlwaysAccepted /\ [][C2_SaveStep]_vars

\* C2 witness: a status update has just moved an order that had been
\* delivered back to pending.
C2_Witness ==
    /\ resp.op = "updateOrderStatus" /\ resp.code = 200
    /\ \E o \in resp.data : orders[o].isDelivered /\ orders[o].status = "pending"

Succeeded(pi) == pi \in DOMAIN intents /\ intents[pi].status = "succeeded"

C3_ConfirmPaymentAccepted ==
    /\ \A o \in DOMAIN orders, pi \in DOMAIN intents :
          (Succeeded(pi) /\ ConfirmPayment(orders[o].user, pi, o)) =>
              /\ resp' = resp
              /\ Len(pending') = Len(pending) + 1
    /\ \A i \in DOMAIN pending :
          ( /\ ConfirmPaymentFind(i)
            /\ pending[i].orderId \in DOMAIN orders
            /\ orders[pending[i].orderId].user = pending[i].u )
          => (resp' = resp /\ pending'[i].pc = "save")

C3_WebhookStep ==
    resp'.op = "webhook" =>
        \A o \in DOMAIN orders :
            Webhook(TRUE, TRUE, "payment_intent.succeeded", o)
            => /\ resp'.code = 200
               /\ orders'[o].isPaid /\ orders'[o].status = "processing"

\* C3 as claimed: the write of a confirm-payment that passed its checks and
\* a signed payment_intent.succeeded event each leave the order with isPaid
\* = true and status processing.
C3_PaidAndProcessingAfterEither ==
    [][/\ C3_WebhookStep
       /\ \A i \in DOMAIN pending :
             ConfirmPaymentSave(i) =>
                 /\ orders'[pending[i].orderId].isPaid
                 /\ orders'[pending[i].orderId].status = "processing"]_vars

C3_ConfirmPaymentSave ==
    \A i \in DOMAIN pending :
        ConfirmPaymentSave(i) =>
            LET r == pending[i]
            IN  /\ resp'.code = 200
                /\ orders'[r.orderId].isPaid
                /\ orders'[r.orderId].status =
                       IF r.loaded.status # "processing" THEN "processing"
                       ELSE orders[r.orderId].status
                /\ orders[r.orderId].status = r.loaded.status =>
                       orders'[r.orderId].status = "processing"

\* C3 amended: a confirm-payment whose intent has succeeded and whose order
\* exists and is the caller's passes both checks, and its save is answered
\* 200; a signature-verified payment_intent.succeeded event naming an
\* existing order is answered 200.  Each leaves the order with isPaid =
\* true.  The webhook stores status processing; confirm-payment stores it
\* unless the order it loaded was in status processing already, and then
\* writes no status.  So after either path, and after both in either
\* order, the order is paid and in status processing unless another request
\* changed its status between the load and the save of confirm-payment.
C3_PaidByEitherPath ==
    [][C3_ConfirmPaymentAccepted /\ C3_ConfirmPaymentSave /\ C3_WebhookStep]_vars

\* C3 witness: the webhook has just been answered for an order that
\* confirm-payment had already marked paid (both paths arrived).
C3_Witness ==
    /\ resp.op = "webhook" /\ resp.code = 200
    /\ \E o \in DOMAIN orders :
          /\ orders[o].isPaid /\ orders[o].paymentResult # 0
          /\ orders[o].status = "processing" /\ orders[o].isDelivered

C15_OwnOrder(u, o) == o \in DOMAIN orders /\ orders[o].user = u

C15_ConfirmSteps ==
    /\ resp'.op = "confirmPayment" =>
          \A u \in FlowPayers, pi \in IntentIdInputs, o \in OrderIdInputs \cup {BadId} :
              (ConfirmPayment(u, pi, o) /\ ~Succeeded(pi)) =>
                  /\ orders' = orders /\ pending' = pending
                  /\ (u \in Users /\ o # BadId /\ pi \in DOMAIN intents) =>
                        (resp'.code = 400 /\ resp'.msg = "Payment not completed")
    /\ \A i \in DOMAIN pending :
          (ConfirmPaymentFind(i) /\ ~C15_OwnOrder(pending[i].u, pending[i].orderId)) =>
              /\ orders' = orders
              /\ resp'.code = 403
              /\ Len(pending') = Len(pending) - 1

\* the order fields confirm-payment writes change in a step of a
\* confirm-payment that has passed both checks, or in a step of another
\* handler (the webhook, a status update)
C15_OrderChangedAfterChecks ==
    \A o \in DOMAIN orders :
        ( \/ orders'[o].isPaid # orders[o].isPaid
          \/ orders'[o].paymentResult # orders[o].paymentResult
          \/ orders'[o].status # orders[o].status )
        => \/ \E type \in EventTypes, id \in DOMAIN orders : Webhook(TRUE, TRUE, type, id)
           \/ \E i \in DOMAIN pending : UpdateOrderStatusSave(i)
           \/ \E i \in DOMAIN pending :
                 /\ ConfirmPaymentSave(i)
                 /\ pending[i].orderId = o
                 /\ C15_OwnOrder(pending[i].u, o)
                 /\ Succeeded(pending[i].paymentIntentId)

C15_CreateIntentStep ==
    resp'.op = "createPaymentIntent" =>
        \A u \in FlowPayers \cap Users, a \in AmountInputs, c \in CurrencyInputs,
           o \in 1 .. MaxOrders :
            (CreatePaymentIntent(u, a, c, o) /\ ~C15_OwnOrder(u, o)) =>
                /\ intents' = intents /\ pending' = pending
                /\ (a >= 50 /\ c \in {"usd", "eur", "gbp"}) => resp'.code = 403

C15_IntentsForOwnOrders ==
    \A pi \in DOMAIN intents :
        intents[pi].orderId # 0 => C15_OwnOrder(intents[pi].userId, intents[pi].orderId)

\* C15: a confirm-payment whose intent has not succeeded is answered 400
\* 'Payment not completed', one whose order is missing or not the caller's
\* 403, and neither changes an order then or later: isPaid, paymentResult
\* and status change by confirm-payment only in the write of a request that
\* passed both checks.  A create-payment-intent that names a missing or
\* foreign order is answered 403 and creates no payment intent, so every
\* intent with an orderId names an order of its user.
C15_PaymentChecks ==
    /\ []C15_IntentsForOwnOrders
    /\ [][C15_ConfirmSteps /\ C15_OrderChangedAfterChecks /\ C15_CreateIntentStep]_vars

\* C15 witness: a confirm-payment with a succeeded intent has just been
\* refused with 403 and the stored order is still unpaid and pending.
C15_Witness ==
    /\ resp.op = "confirmPayment" /\ resp.code = 403
    /\ resp.msg = "Order not found or access denied"
    /\ \E pi \in DOMAIN intents : Succeeded(pi)
    /\ orders # <<>>
    /\ \A o \in DOMAIN orders : ~orders[o].isPaid /\ orders[o].status = "pending"

(***************************************************************************)
(* SpecAccess: the admin routes of orders and products                     *)
(***************************************************************************)
ProductBodies ==
    { [name |-> "Phone", sku |-> k, price |-> 2000, stockCount |-> n, category |-> c] :
        k \in {"a1", "b2", ""}, n \in {2}, c \in {1, 2} }

UpdateBodies ==
    { [isActive |-> TRUE], [sku |-> "b2"] }

AccessProductBody == [name |-> "Phone C", sku |-> "c3", price |-> 2000, stockCount |-> 1, category |-> 1]
AccessUpdateBody == [price |-> 2500]
AccessStatusFilters == {"", "pending", "shipped"}
AccessStatusInputs == {"shipped", "refunded"}
TrackingInputs == {"TRK1"}
AccessCreators == Customers \cup {"anon"}

NextAccess ==
    \/ /\ Room /\ OrdersBegun < MaxOrders
       /\ \E u \in AccessCreators : Backend(CreateOrder(u, <<Line(1, 1)>>, TRUE, "stripe"))
    \/ \E i \in DOMAIN pending : Backend(CreateOrderCreate(i))
    \/ \E i \in DOMAIN pending : Backend(CreateOrderInc(i))
    \/ \E i \in DOMAIN pending : Backend(CreateOrderEmail(i, FALSE))
    \/ \E i \in DOMAIN pending : Backend(CreateOrderPopulate(i))
    \/ /\ Room
       /\ \E u \in Requesters, s \in AccessStatusFilters : Backend(GetAllOrders(u, s))
    \/ \E i \in DOMAIN pending : Backend(GetAllOrdersCount(i))
    \/ /\ Room
       /\ \E u \in Requesters, id \in OrderIdInputs, s \in AccessStatusInputs,
             t \in TrackingInputs : Backend(UpdateOrderStatus(u, id, s, t))
    \/ \E i \in DOMAIN pending : Backend(UpdateOrderStatusSave(i))
    \/ /\ Room /\ ProductsBegun < MaxProducts
       /\ \E u \in Requesters : Backend(CreateProduct(u, AccessProductBody))
    \/ \E i \in DOMAIN pending : Backend(CreateProductSku(i))
    \/ \E i \in DOMAIN pending, skuUnique \in BOOLEAN : Backend(CreateProductCreate(i, skuUnique))
    \/ \E i \in DOMAIN pending : Backend(CreateProductPopulate(i))
    \/ /\ Room
       /\ \E u \in Requesters, id \in ProductIdInputs :
            Backend(UpdateProduct(u, id, AccessUpdateBody))
    \/ \E i \in DOMAIN pending, skuUnique \in BOOLEAN : Backend(UpdateProductUpdate(i, skuUnique))
    \/ /\ Room
       /\ \E u \in Requesters, id \in ProductIdInputs : Backend(DeleteProduct(u, id))
    \/ \E i \in DOMAIN pending : Backend(DeleteProductSave(i))

SpecAccess == Init /\ [][NextAccess]_vars

(***************************************************************************)
(* SpecReads: orders of several users and who may read them               *)
(***************************************************************************)
ReadOrderIds == 1 .. (MaxAccessOrders + 1)

NextReads ==
    \/ /\ Room /\ OrdersBegun < MaxAccessOrders
       /\ \E u \in AccessCreators : Backend(CreateOrder(u, <<Line(1, 1)>>, TRUE, "stripe"))
    \/ \E i \in DOMAIN pending : Backend(CreateOrderCreate(i))
    \/ \E i \in DOMAIN pending : Backend(CreateOrderInc(i))
    \/ \E i \in DOMAIN pending : Backend(CreateOrderEmail(i, FALSE))
    \/ \E i \in DOMAIN pending : Backend(CreateOrderPopulate(i))
    \/ /\ Room
       /\ \E u \in Requesters : Backend(GetOrders(u))
    \/ \E i \in DOMAIN pending : Backend(GetOrdersCount(i))
    \/ \E u \in Requesters, id \in ReadOrderIds : Backend(GetOrder(u, id))
    \/ /\ Room
       /\ \E u \in Requesters, s \in AccessStatusFilters : Backend(GetAllOrders(u, s))
    \/ \E i \in DOMAIN pending : Backend(GetAllOrdersCount(i))

SpecReads == Init /\ [][NextReads]_vars

(***************************************************************************)
(* Properties of access control                                            *)
(***************************************************************************)
AdminRouteOps ==
    {"createProduct", "updateProduct", "deleteProduct", "getAllOrders", "updateOrderStatus"}

\* the first step of the admin route `op` for requester u
C5_AdminRouteStep(op, u) ==
    CASE op = "createProduct" -> CreateProduct(u, AccessProductBody)
      [] op = "updateProduct" ->
            \E id \in ProductIdInputs : UpdateProduct(u, id, AccessUpdateBody)
      [] op = "deleteProduct" -> \E id \in ProductIdInputs : DeleteProduct(u, id)
      [] op = "getAllOrders" -> \E s \in AccessStatusFilters : GetAllOrders(u, s)
      [] op = "updateOrderStatus" ->
            \E id \in OrderIdInputs, s \in AccessStatusInputs, t \in TrackingInputs :
                UpdateOrderStatus(u, id, s, t)

\* a step that leaves the requests in flight as they are is the one step of
\* a request; if an admin route takes it for another requester than an
\* admin, it refuses
C5_OtherRequesterStep ==
    (resp'.op \in AdminRouteOps /\ pending' = pending) =>
        \A u \in Requesters \ {"admin"} :
            C5_AdminRouteStep(resp'.op, u) =>
                /\ products' = products
                /\ orders' = orders
                /\ resp'.code \in {401, 403}
                /\ resp'.data = {}

\* the requests of the admin routes that are past their first step, and so
\* go on to write or to answer with data, are an admin's
C5_InFlightIsAdmin ==
    \A i \in DOMAIN pending : pending[i].op \in AdminRouteOps => pending[i].u = "admin"

\* the list of all orders is answered to an admin
C5_ListAnswerStep ==
    \A i \in DOMAIN pending :
        GetAllOrdersCount(i) => (pending[i].u = "admin" /\ resp'.code = 200)

\* C5: a request to create, update or delete a product, to list all orders
\* or to update an order's status that comes from anyone but an
\* authenticated admin is answered 401 or 403 with no data in its first
\* step, changes no product and no order, and has no later step.
C5_AdminOnly ==
    []C5_InFlightIsAdmin /\ [][C5_OtherRequesterStep /\ C5_ListAnswerStep]_vars

\* C5 witness: a product delete has just been refused with 403 while the
\* products are all still active, an order is stored and an admin's delete
\* is between its read and its write.
C5_Witness ==
    /\ resp.op = "deleteProduct" /\ resp.code = 403
    /\ Len(products) = MaxProducts
    /\ \A p \in DOMAIN products : products[p].isActive
    /\ orders # <<>>
    /\ \E i \in DOMAIN pending : pending[i].op = "deleteProduct"

C8_GetOrderStep ==
    resp'.op = "getOrder" =>
        \A u \in Users, id \in ReadOrderIds :
            GetOrder(u, id) =>
                IF id \notin DOMAIN orders
                THEN resp'.code = 404 /\ resp'.data = {}
                ELSE IF orders[id].user = u \/ u = "admin"
                THEN resp'.code = 200 /\ resp'.data = {id}
                ELSE resp'.code = 403 /\ resp'.msg = "Access denied" /\ resp'.data = {}

\* the find of GET /api/orders returns the orders of the requester, and the
\* answer carries what the find returned
C8_GetOrdersStep ==
    /\ (Len(pending') > Len(pending) /\ pending'[Len(pending')].op = "getOrders") =>
          LET r == pending'[Len(pending')]
          IN  GetOrders(r.u) => r.found = {o \in DOMAIN orders : orders[o].user = r.u}
    /\ \A i \in DOMAIN pending :
          GetOrdersCount(i) =>
              /\ resp'.code = 200 /\ resp'.data = pending[i].found
              /\ \A o \in resp'.data : o \in DOMAIN orders /\ orders[o].user = pending[i].u

\* C8: GET /api/orders/:id answers 404 for a missing order, the order for
\* its owner or an admin, and 403 'Access denied' without data for any other
\* authenticated requester; GET /api/orders carries only orders whose user
\* is the requester.
C8_OrdersReadByOwnerOrAdmin == [][C8_GetOrderStep /\ C8_GetOrdersStep]_vars

\* C8 witness: with orders of two different users stored, a read of one
\* order has just been answered 403 'Access denied'.
C8_Witness ==
    /\ resp.op = "getOrder" /\ resp.code = 403 /\ resp.msg = "Access denied"
    /\ \E a, b \in DOMAIN orders : orders[a].user # orders[b].user

(***************************************************************************)
(* SpecCatalog: the product catalog (create, update, soft delete, the     *)
(* public reads) and orders on it                                          *)
(***************************************************************************)
CatalogRequesters == {"admin", "u1"}
PriceParams == {NoParam, 2500, BadParam}

NextCatalog ==
    \/ /\ Room /\ ProductsBegun < MaxProducts
       /\ \E u \in CatalogRequesters, body \in ProductBodies : Backend(CreateProduct(u, body))
    \/ \E i \in DOMAIN pending : Backend(CreateProductSku(i))
    \/ \E i \in DOMAIN pending, skuUnique \in BOOLEAN : Backend(CreateProductCreate(i, skuUnique))
    \/ \E i \in DOMAIN pending : Backend(CreateProductPopulate(i))
    \/ /\ Room
       /\ \E u \in CatalogRequesters, id \in ProductIdInputs, body \in UpdateBodies :
            Backend(UpdateProduct(u, id, body))
    \/ \E i \in DOMAIN pending : Backend(UpdateProductSku(i))
    \/ \E i \in DOMAIN pending, skuUnique \in BOOLEAN : Backend(UpdateProductUpdate(i, skuUnique))
    \/ /\ Room
       /\ \E u \in CatalogRequesters, id \in ProductIdInputs : Backend(DeleteProduct(u, id))
    \/ \E i \in DOMAIN pending : Backend(DeleteProductSave(i))
    \/ /\ Room
       /\ \E lo \in PriceParams, hi \in PriceParams : Backend(GetProducts(lo, hi))
    \/ \E i \in DOMAIN pending : Backend(GetProductsCount(i))
    \/ \E id \in ProductIdInputs : Backend(GetProduct(id))
    \/ /\ Room /\ OrdersBegun < MaxCatalogOrders
       /\ \E lines \in SingleLines : Backend(CreateOrder("u1", lines, TRUE, "stripe"))
    \/ \E i \in DOMAIN pending : Backend(CreateOrderCreate(i))
    \/ \E i \in DOMAIN pending : Backend(CreateOrderInc(i))
    \/ \E i \in DOMAIN pending : Backend(CreateOrderEmail(i, FALSE))
    \/ \E i \in DOMAIN pending : Backend(CreateOrderPopulate(i))

SpecCatalog == InitCatalog /\ [][NextCatalog]_vars

(***************************************************************************)
(* Properties of the catalog                                               *)
(***************************************************************************)
C7_Listed == {p \in DOMAIN products : ProductFilter(p, NoParam, NoParam)}

\* C7 as claimed: once a product is deleted (inactive) it is absent from
\* the product list in every later state.
C7_DeletedStaysHidden ==
    [][\A p \in DOMAIN products : ~products[p].isActive => p \notin C7_Listed']_vars

C7_SoftDeleteStep ==
    resp'.op = "deleteProduct" =>
        \A i \in DOMAIN pending :
            DeleteProductSave(i) =>
                /\ resp'.code = 200
                /\ products' = [products EXCEPT ![pending[i].id].isActive =
                                     IF pending[i].loaded.isActive THEN FALSE ELSE @]
                /\ products[pending[i].id].isActive = pending[i].loaded.isActive =>
                       ~products'[pending[i].id].isActive

C7_InactiveRefusedStep ==
    /\ resp'.op = "getProduct" =>
          \A id \in DOMAIN products :
              (GetProduct(id) /\ ~products[id].isActive) => resp'.code = 404
    /\ resp'.op = "createOrder" =>
          \A lines \in SingleLines :
              ( /\ CreateOrder("u1", lines, TRUE, "stripe")
                /\ \E i \in DOMAIN lines :
                      /\ lines[i].product \in DOMAIN products
                      /\ ~products[lines[i].product].isActive )
              => resp'.code = 400 /\ orders' = orders /\ pending' = pending

C7_ReactivatedOnlyByUpdate ==
    \A p \in DOMAIN products :
        (~products[p].isActive /\ products'[p].isActive) =>
            /\ resp'.op = "updateProduct" /\ resp'.code = 200
            /\ \E i \in DOMAIN pending :
                  /\ pending[i].op = "updateProduct" /\ pending[i].id = p
                  /\ "isActive" \in DOMAIN pending[i].body
                  /\ \E skuUnique \in BOOLEAN : UpdateProductUpdate(i, skuUnique)

\* the find of GET /api/products returns active products only, all of them
\* without a price filter, and the answer carries what the find returned
C7_ListStep ==
    /\ (Len(pending') > Len(pending) /\ pending'[Len(pending')].op = "getProducts") =>
          LET r == pending'[Len(pending')]
          IN  GetProducts(r.minPrice, r.maxPrice) =>
                  /\ \A p \in r.found : products[p].isActive
                  /\ (r.minPrice = NoParam /\ r.maxPrice = NoParam) => r.found = C7_Listed
    /\ \A i \in DOMAIN pending :
          GetProductsCount(i) => (resp'.code = 200 /\ resp'.data = pending[i].found)

C7_AnswersCarryActiveOnly ==
    (resp.op = "getProduct" /\ resp.code = 200) =>
        \A p \in resp.data : products[p].isActive

\* C7 amended: the save of DELETE /api/products/:id sets isActive to false
\* on a product the handler loaded active, and writes nothing else (the
\* record and its other fields stay; for a product it loaded inactive it
\* writes nothing at all); a product that is not active is not returned by
\* the find of GET /api/products, gets 404 from GET /api/products/:id and
\* 400 from the validation of a POST /api/orders that reads it; and it
\* stays inactive until the write of a PUT /api/products/:id sets isActive
\* again.
C7_SoftDelete ==
    /\ []C7_AnswersCarryActiveOnly
    /\ [][C7_SoftDeleteStep /\ C7_InactiveRefusedStep /\ C7_ReactivatedOnlyByUpdate
          /\ C7_ListStep]_vars

\* C7 witness: a deleted product that still has its stock and SKU has just
\* been answered 404.
C7_Witness ==
    /\ resp.op = "getProduct" /\ resp.code = 404
    /\ \E p \in DOMAIN products :
          ~products[p].isActive /\ products[p].stockCount = 2 /\ products[p].sku = "B2"

(***************************************************************************)
(* SpecCheckout: order creation with several lines against the stock      *)
(***************************************************************************)
CheckoutRequesters == {"u1", "anon"}

NextCheckout ==
    \/ /\ Room /\ OrdersBegun < MaxCheckoutOrders
       /\ \E u \in CheckoutRequesters, lines \in CheckoutLines, pm \in PaymentMethodInputs :
            Backend(CreateOrder(u, lines, TRUE, pm))
    \/ \E i \in DOMAIN pending : Backend(CreateOrderFind(i))
    \/ \E i \in DOMAIN pending : Backend(CreateOrderCreate(i))
    \/ \E i \in DOMAIN pending : Backend(CreateOrderInc(i))
    \/ \E i \in DOMAIN pending : Backend(CreateOrderEmail(i, FALSE))
    \/ \E i \in DOMAIN pending : Backend(CreateOrderPopulate(i))
    \/ /\ Room
       /\ \E id \in ProductIdInputs : Backend(DeleteProduct("admin", id))
    \/ \E i \in DOMAIN pending : Backend(DeleteProductSave(i))

SpecCheckout == InitCheckout /\ [][NextCheckout]_vars

(***************************************************************************)
(* Properties of order creation                                            *)
(***************************************************************************)
C4_BadLine(line) ==
    \/ line.product \notin DOMAIN products
    \/ ~products[line.product].isActive
    \/ products[line.product].stockCount < line.quantity

\* the first pass of the validation loop, in the first step of a request:
\* a step that adds a request of POST /api/orders has read a first line that
\* passes and has written nothing
C4_FirstPassAccepts ==
    (Len(pending') > Len(pending) /\ pending'[Len(pending')].op = "createOrder") =>
        LET r == pending'[Len(pending')]
        IN  CreateOrder(r.u, r.lines, TRUE, r.paymentMethod) =>
                /\ ~C4_BadLine(r.lines[1])
                /\ orders' = orders
                /\ products' = products

\* a first step of POST /api/orders whose first line fails answers 400
\* and leaves no request behind
C4_FirstPassRejects ==
    (resp'.op = "createOrder" /\ pending' = pending) =>
        /\ orders' = orders
        /\ products' = products
        /\ \A lines \in {l \in CheckoutLines \ {<<>>} :
                            C4_BadLine(l[1]) /\ resp'.data = {l[1].product}},
              u \in CheckoutRequesters \cap Users,
              pm \in PaymentMethodInputs \cap PaymentMethods :
                CreateOrder(u, lines, TRUE, pm) => resp'.code = 400

C4_FirstPass == C4_FirstPassAccepts /\ C4_FirstPassRejects

\* a later pass of the validation loop
C4_LaterPass ==
    \A i \in DOMAIN pending :
        CreateOrderFind(i) =>
            /\ orders' = orders
            /\ products' = products
            /\ C4_BadLine(pending[i].lines[pending[i].k]) =>
                  /\ resp'.op = "createOrder" /\ resp'.code = 400
                  /\ Len(pending') = Len(pending) - 1
                  /\ \A j \in DOMAIN pending' : pending'[j] = pending[IF j < i THEN j ELSE j + 1]

\* a request of POST /api/orders has no order stored while it validates,
\* and has passed every line when it is past the validation
C4_ValidatedBeforeWrites ==
    \A i \in DOMAIN pending :
        pending[i].op = "createOrder" =>
            IF pending[i].pc = "find"
            THEN pending[i].order = 0 /\ Len(pending[i].orderItems) = pending[i].k - 1
            ELSE /\ Len(pending[i].orderItems) = Len(pending[i].lines)
                 /\ \A j \in DOMAIN pending[i].lines :
                       /\ pending[i].orderItems[j].product = pending[i].lines[j].product
                       /\ pending[i].orderItems[j].quantity = pending[i].lines[j].quantity

\* C4: every pass of the validation loop of POST /api/orders writes nothing;
\* a pass that reads a product that is missing or inactive, or has less
\* stock than the line asks for, answers 400 and ends the request, so no
\* order is created and no stock is taken for it (also not for the lines
\* that passed before); a request stores its order and takes stock only
\* after every line has passed.
C4_ValidatesBeforeWriting ==
    /\ []C4_ValidatedBeforeWrites
    /\ [][C4_FirstPass /\ C4_LaterPass]_vars

\* C4 witness: after an earlier order took stock, a request whose first
\* line had passed has just been rejected with 400 for its second line,
\* whose product is inactive; the stock is that of the earlier order.
C4_Witness ==
    /\ resp.op = "createOrder" /\ resp.code = 400
    /\ resp.msg = "Product not found or inactive"
    /\ resp.data = {2} /\ ~products[2].isActive
    /\ Len(orders) = 1 /\ pending = <<>>
    /\ products[1].stockCount = 1 /\ products[2].stockCount = 2
    /\ orders[1].items[1].product = 1 /\ Len(orders[1].items) = 1

\* the total quantity the lines whose index is in idx ask for
RECURSIVE QuantityOf(_, _)
QuantityOf(lines, idx) ==
    IF idx = {} THEN 0
    ELSE LET i == CHOOSE i \in idx : TRUE
         IN  lines[i].quantity + QuantityOf(lines, idx \ {i})

\* the total quantity of product p in the lines
QuantityOfProduct(lines, p) ==
    QuantityOf(lines, {i \in DOMAIN lines : lines[i].product = p})

\* the number of items of stored order o whose stock update has run: all of
\* them, unless the request of the order is still in its stock loop
C13_ItemsDone(o) ==
    IF \E i \in DOMAIN pending : pending[i].op = "createOrder" /\ pending[i].order = o
                                 /\ pending[i].pc = "inc"
    THEN LET i == CHOOSE i \in DOMAIN pending :
                      pending[i].op = "createOrder" /\ pending[i].order = o
                      /\ pending[i].pc = "inc"
         IN  pending[i].k - 1
    ELSE Len(orders[o].items)

\* the stock of product p taken so far for the first n stored orders
RECURSIVE C13_Taken(_, _)
C13_Taken(n, p) ==
    IF n = 0 THEN 0
    ELSE QuantityOf(orders[n].items,
                    {j \in 1 .. C13_ItemsDone(n) : orders[n].items[j].product = p})
         + C13_Taken(n - 1, p)

\* the stock that is gone is the stock taken for the stored orders
C13_StockAccounted ==
    \A p \in DOMAIN products :
        products[p].stockCount =
            SeedCheckoutProducts[p].stockCount - C13_Taken(Len(orders), p)

\* an order that has been answered 201 has taken, of each product, the sum
\* of the quantities of its lines for it
C13_AnsweredStep ==
    \A i \in DOMAIN pending :
        CreateOrderPopulate(i) =>
            LET o == pending[i].order
            IN  /\ resp'.code = 201 /\ resp'.data = {o}
                /\ C13_ItemsDone(o) = Len(orders[o].items)
                /\ \A j \in DOMAIN pending' :
                      pending'[j].op = "createOrder" => pending'[j].order # o
                /\ \A p \in DOMAIN products :
                      QuantityOfProduct(orders[o].items, p) =
                          QuantityOfProduct(pending[i].lines, p)

\* one call of the stock loop takes the quantity of one item from the
\* product of the item and writes nothing else
C13_IncStep ==
    \A i \in DOMAIN pending :
        CreateOrderInc(i) =>
            LET item == pending[i].orderItems[pending[i].k]
            IN  /\ item = orders[pending[i].order].items[pending[i].k]
                /\ products' = [products EXCEPT ![item.product].stockCount =
                                                    @ - item.quantity]
                /\ orders' = orders

\* the other steps of a request leave the products alone
C13_OtherSteps ==
    \A i \in DOMAIN pending :
        (\/ CreateOrderFind(i) \/ CreateOrderCreate(i)
         \/ CreateOrderEmail(i, FALSE) \/ CreateOrderPopulate(i)) => products' = products

\* an item is built from the product record its validation pass has read,
\* and the items of the request are the items of the stored order
C13_ItemStep ==
    \A i \in DOMAIN pending :
        /\ (CreateOrderFind(i) /\ Len(pending') = Len(pending)) =>
              LET line == pending[i].lines[pending[i].k]
                  item == pending'[i].orderItems[pending[i].k]
              IN  /\ item.product = line.product /\ item.quantity = line.quantity
                  /\ item.name = products[line.product].name
                  /\ item.price = products[line.product].price
        /\ CreateOrderCreate(i) =>
              /\ Len(orders') = Len(orders) + 1
              /\ orders'[Len(orders')].items = pending[i].orderItems

\* the items of a stored order carry the name and the price of the product
\* and never change
C13_ItemsKept ==
    /\ \A o \in DOMAIN orders : \A j \in DOMAIN orders[o].items :
          LET item == orders[o].items[j]
          IN  /\ item.name = products[item.product].name
              /\ item.price = products[item.product].price
    /\ \A i \in DOMAIN pending :
          pending[i].op = "createOrder" =>
              \A j \in DOMAIN pending[i].orderItems :
                  LET item == pending[i].orderItems[j]
                  IN  /\ item.name = products[item.product].name
                      /\ item.price = products[item.product].price

C13_ItemsUnchanged ==
    \A o \in DOMAIN orders : o \in DOMAIN orders' /\ orders'[o].items = orders[o].items

\* C13: each call of the stock loop of a POST /api/orders lowers the
\* stockCount of the product of one item by the quantity of the item and
\* changes no other product and no other field, and no other step of the
\* request writes a product; so the stock that is gone is, in every state,
\* the sum of the quantities of the items whose update has run, and an
\* order answered 201 has taken the sum of the quantities of its lines for
\* each product.  The items of the stored order are those built in the
\* validation loop from the product records read there (name and price),
\* and they are not changed afterwards.
C13_StockTakenPerLine ==
    /\ []C13_StockAccounted
    /\ []C13_ItemsKept
    /\ [][C13_IncStep /\ C13_OtherSteps /\ C13_ItemStep /\ C13_AnsweredStep
          /\ C13_ItemsUnchanged]_vars

\* C13 witness: an order with two lines for product 1 has just been
\* answered 201 and product 1 lost the sum of both quantities.
C13_Witness ==
    /\ resp.op = "createOrder" /\ resp.code = 201
    /\ \E o \in resp.data :
          /\ Len(orders[o].items) = 2
          /\ orders[o].items[1].product = 1 /\ orders[o].items[2].product = 1
          /\ orders[o].items[1].quantity = 1 /\ orders[o].items[2].quantity = 1
          /\ orders[o].items[1].name = "Phone A" /\ orders[o].items[1].price = 2000
    /\ pending = <<>>
    /\ products[1].stockCount = 0 /\ products[2].stockCount = 2

\* the total quantity of product p in the first n stored orders
RECURSIVE QuantityInOrders(_, _)
QuantityInOrders(n, p) ==
    IF n = 0 THEN 0
    ELSE QuantityOfProduct(orders[n].items, p) + QuantityInOrders(n - 1, p)

\* C12 as claimed: in every reachable state every product's stockCount is
\* at least 0 and the created orders hold no more of a product than its
\* initial stockCount.
C12_NeverOversold ==
    \A p \in DOMAIN products :
        /\ products[p].stockCount >= 0
        /\ QuantityInOrders(Len(orders), p) <= SeedCheckoutProducts[p].stockCount

\* the same for orders that name every product on one line only: violated
\* by two requests that both pass the stock check before either takes stock
C12_NeverOversoldByDistinctLines ==
    (\A o \in DOMAIN orders : \A i, j \in DOMAIN orders[o].items :
         i # j => orders[o].items[i].product # orders[o].items[j].product)
    => C12_NeverOversold

(***************************************************************************)
(* Order creation with a mail service that may fail                        *)
(***************************************************************************)
MailLines == SingleLines \cup {<<Line(1, 1), Line(2, 1)>>}

NextMail ==
    \/ /\ Room /\ OrdersBegun < MaxMailOrders
       /\ \E u \in Customers, lines \in MailLines, pm \in PaymentMethodInputs :
            Backend(CreateOrder(u, lines, TRUE, pm))
    \/ \E i \in DOMAIN pending : Backend(CreateOrderFind(i))
    \/ \E i \in DOMAIN pending : Backend(CreateOrderCreate(i))
    \/ \E i \in DOMAIN pending : Backend(CreateOrderInc(i))
    \/ \E i \in DOMAIN pending, emailThrows \in BOOLEAN :
            Backend(CreateOrderEmail(i, emailThrows))
    \/ \E i \in DOMAIN pending : Backend(CreateOrderPopulate(i))

SpecMail == InitCheckout /\ [][NextMail]_vars

\* when the email throws, the step changes nothing but the position of the
\* request, which goes on to its last step with its order stored and the
\* stock of all its items taken
C11_EmailFailureStep ==
    \A i \in DOMAIN pending :
        CreateOrderEmail(i, TRUE) =>
            LET o == pending[i].order
            IN  /\ orders' = orders /\ products' = products
                /\ emails' = emails /\ resp' = resp
                /\ o \in DOMAIN orders
                /\ orders[o].items = pending[i].orderItems
                /\ C13_ItemsDone(o) = Len(orders[o].items)
                /\ pending' = [pending EXCEPT ![i].pc = "populate"]

\* the last step answers 201 whether or not the email of the order went out
C11_AnswerStep ==
    \A i \in DOMAIN pending :
        CreateOrderPopulate(i) =>
            /\ resp' = Response("createOrder", 201, "Order created successfully",
                                {pending[i].order})
            /\ orders' = orders /\ products' = products

\* a request past the email can take its last step
C11_AnswerEnabled ==
    \A i \in DOMAIN pending :
        At(i, "createOrder", "populate") => ENABLED CreateOrderPopulate(i)

\* C11: when every line of a POST /api/orders has passed validation and
\* sendOrderConfirmationEmail throws, the order stays stored and the stock
\* stays decremented (the step writes nothing), the request goes on, and
\* its answer is 201 'Order created successfully'.
C11_EmailFailureKeepsOrder ==
    /\ []C11_AnswerEnabled
    /\ [][C11_EmailFailureStep /\ C11_AnswerStep]_vars

\* C11 witness: an order has just been answered 201, it is stored and its
\* stock is taken, and no confirmation email went out for it, while the
\* email of the other order did go out.
C11_Witness ==
    /\ resp.op = "createOrder" /\ resp.code = 201
    /\ \A o \in resp.data : o \in DOMAIN orders /\ o \notin emails
    /\ \E p \in DOMAIN products : products[p].stockCount < 2
    /\ emails # {}

(***************************************************************************)
(* Order totals                                                            *)
(***************************************************************************)
\* request lines that also carry a price, as a client may send them
BodyPrice == 1
PricedLine(p, q) == [product |-> p, quantity |-> q, price |-> BodyPrice]
PricedLineInputs == { PricedLine(p, q) : p \in 1 .. MaxProducts, q \in 1 .. MaxQty }
TotalsLines == UNION { [1 .. n -> PricedLineInputs] : n \in 1 .. MaxLines }
PriceInputs == {2500}

NextTotals ==
    \/ /\ Room /\ OrdersBegun < MaxTotalsOrders
       /\ \E lines \in TotalsLines : Backend(CreateOrder("u1", lines, TRUE, "stripe"))
    \/ \E i \in DOMAIN pending : Backend(CreateOrderFind(i))
    \/ \E i \in DOMAIN pending : Backend(CreateOrderCreate(i))
    \/ \E i \in DOMAIN pending : Backend(CreateOrderInc(i))
    \/ \E i \in DOMAIN pending : Backend(CreateOrderEmail(i, FALSE))
    \/ \E i \in DOMAIN pending : Backend(CreateOrderPopulate(i))
    \/ /\ Room /\ InFlight("updateProduct") = 0
       /\ \E id \in 1 .. MaxProducts, price \in PriceInputs :
            Backend(UpdateProduct("admin", id, [price |-> price]))
    \/ \E i \in DOMAIN pending, skuUnique \in BOOLEAN :
            Backend(UpdateProductUpdate(i, skuUnique))

SpecTotals == InitCheckout /\ [][NextTotals]_vars

\* request r' is request r after a pass for line `line` that has read the
\* product record: the item carries the record's price and the sum grows by
\* that price times the quantity
C14_Passed(itemsPrice, r, line) ==
    LET item == r.orderItems[Len(r.orderItems)]
    IN  /\ item.product = line.product /\ item.quantity = line.quantity
        /\ item.price = products[line.product].price
        /\ r.itemsPrice = itemsPrice + products[line.product].price * line.quantity

C14_PassStep ==
    /\ (Len(pending') > Len(pending) /\ pending'[Len(pending')].op = "createOrder") =>
          LET r == pending'[Len(pending')]
          IN  CreateOrder(r.u, r.lines, TRUE, r.paymentMethod) =>
                  C14_Passed(0, r, r.lines[1])
    /\ \A i \in DOMAIN pending :
          (CreateOrderFind(i) /\ Len(pending') = Len(pending)) =>
              C14_Passed(pending[i].itemsPrice, pending'[i], pending[i].lines[pending[i].k])

C14_CreateStep ==
    \A i \in DOMAIN pending :
        CreateOrderCreate(i) =>
            LET o == orders'[Len(orders')]
                sum == pending[i].itemsPrice
            IN  /\ o.items = pending[i].orderItems
                /\ o.itemsPrice = sum
                /\ o.shippingPrice = (IF sum >= 5000 THEN 0 ELSE 999)
                /\ o.taxPrice * 100 = sum * 8
                /\ o.totalPrice = o.itemsPrice + o.shippingPrice + o.taxPrice

\* the total of the first n of the items, with the prices they carry
RECURSIVE C14_ItemsSum(_, _)
C14_ItemsSum(orderItems, n) ==
    IF n = 0 THEN 0
    ELSE orderItems[n].price * orderItems[n].quantity + C14_ItemsSum(orderItems, n - 1)

C14_StoredTotals ==
    /\ \A o \in DOMAIN orders :
          /\ orders[o].itemsPrice = C14_ItemsSum(orders[o].items, Len(orders[o].items))
          /\ orders[o].totalPrice =
                 orders[o].itemsPrice + orders[o].shippingPrice + orders[o].taxPrice
          /\ \A j \in DOMAIN orders[o].items : orders[o].items[j].price # BodyPrice
    /\ \A i \in DOMAIN pending :
          pending[i].op = "createOrder" =>
              pending[i].itemsPrice =
                  C14_ItemsSum(pending[i].orderItems, Len(pending[i].orderItems))

\* C14: a created order has itemsPrice = the sum over its lines of the
\* price of the product record, as the validation pass of the line read it,
\* times the quantity (a price in the request body is ignored),
\* shippingPrice = 0 when itemsPrice >= 50.00 and 9.99 otherwise, taxPrice =
\* 8% of itemsPrice, and totalPrice = itemsPrice + shippingPrice + taxPrice;
\* the stored totals stay those of the stored items.
C14_OrderTotals == []C14_StoredTotals /\ [][C14_PassStep /\ C14_CreateStep]_vars

\* C14 witness: one order of exactly 50.00 ships free, another below it
\* pays 9.99, and a product's price has changed since.
C14_Witness ==
    /\ \E o \in DOMAIN orders :
          /\ orders[o].itemsPrice = 5000 /\ orders[o].shippingPrice = 0
          /\ orders[o].taxPrice = 400 /\ orders[o].totalPrice = 5400
    /\ \E o \in DOMAIN orders :
          /\ orders[o].itemsPrice = 4000 /\ orders[o].shippingPrice = 999
          /\ orders[o].totalPrice = 5319
          /\ \E i \in DOMAIN orders[o].items :
                orders[o].items[i].price # products[orders[o].items[i].product].price

(***************************************************************************)
(* SpecCategories: the category routes of the backend                      *)
(***************************************************************************)
CategoryNames == {"phones", "laptops"}
CategoryIdInputs == 1 .. (MaxCategories + 1)

NextCategories ==
    \/ \E u \in Requesters : Backend(GetAllCategories(u))
    \/ \E u \in Requesters, id \in CategoryIdInputs : Backend(GetCategoryById(u, id))
    \/ \E u \in Requesters, slug \in CategoryNames : Backend(GetCategoryBySlug(u, slug))
    \/ /\ NewCategoryId <= MaxCategories
       /\ \E u \in Requesters, name \in CategoryNames : Backend(CreateCategory(u, name))
    \/ \E u \in Requesters, id \in CategoryIdInputs, name \in CategoryNames :
            Backend(UpdateCategory(u, id, name))
    \/ \E u \in Requesters, id \in CategoryIdInputs : Backend(DeleteCategory(u, id))

SpecCategories == InitCatalog /\ [][NextCategories]_vars

C6_CategoryWriteStep(u) ==
    \/ \E name \in CategoryNames : CreateCategory(u, name)
    \/ \E id \in CategoryIdInputs, name \in CategoryNames : UpdateCategory(u, id, name)
    \/ \E id \in CategoryIdInputs : DeleteCategory(u, id)

\* C6 as claimed: a create, update or delete of a category by a requester
\* who is not an admin does not reach the controller: it is answered 401 or
\* 403 and the set of categories is unchanged.
C6_CategoryWritesAdminOnly ==
    [][resp'.op \in {"createCategory", "updateCategory", "deleteCategory"} =>
         \A u \in Requesters \ {"admin"} :
             C6_CategoryWriteStep(u) =>
                 (categories' = categories /\ resp'.code \in {401, 403})]_vars

(***************************************************************************)
(* SpecAdminStore: the admin's category and product management (client)   *)
(***************************************************************************)
ClockInputs == 1 .. MaxClock
StoreIds == { ToString(now) : now \in ClockInputs }

NextAdminStore ==
    \/ /\ Len(storeCategories) < MaxStoreCategories
       /\ \E name \in CategoryNames, now \in ClockInputs :
            StoreStep(addCategory([name |-> name], now))
    \/ \E id \in StoreIds, name \in CategoryNames :
            StoreStep(updateCategory(id, [name |-> name]))
    \/ /\ Len(storeProducts) < MaxStoreProducts
       /\ \E c \in StoreIds, now \in ClockInputs, created \in ClockInputs :
            /\ now <= created
            /\ StoreStep(addProduct([category |-> c], now, created))
    \/ \E id \in StoreIds, c \in StoreIds :
            StoreStep(updateProduct(id, [category |-> c]))
    \/ \E id \in StoreIds : StoreStep(deleteProduct(id))
    \/ \E i \in DOMAIN storeCategories :
            PageStep(handleDeleteCategory(storeCategories[i].id))
    \/ PageStep(closeDeleteModal)
    \/ PageStep(confirmDelete)

SpecAdminStore == Init /\ [][NextAdminStore]_vars

\* `new` is `old` without the categories whose id is `id`, the others in
\* their order
C9_Removed(old, new, id) ==
    LET kept == {i \in DOMAIN old : old[i].id # id}
    IN  /\ Len(new) = Cardinality(kept)
        /\ \A i \in kept : new[Cardinality({j \in kept : j <= i})] = old[i]

C9_DeleteStep ==
    \A id \in StoreIds :
        (categoryToDelete = id /\ confirmDelete) =>
            /\ C9_Removed(storeCategories, storeCategories', id)
            /\ storeProducts' = storeProducts

\* C9: confirming the deletion of category id removes exactly the
\* categories whose id is id from the store, keeps the other categories in
\* their order and leaves the product list as it was.
C9_DeleteCategoryKeepsProducts == [][C9_DeleteStep]_vars

\* C9 witness: the modal is closed again, a category is left, and a product
\* of the store names a category that is no longer in the store.
C9_Witness ==
    /\ ~showDeleteModal /\ categoryToDelete = NoCategory
    /\ Len(storeCategories) = 2
    /\ \E i \in DOMAIN storeProducts :
          \A c \in DOMAIN storeCategories : storeCategories[c].id # storeProducts[i].category

(***************************************************************************)
(* SpecCart: the shopping cart (client)                                    *)
(***************************************************************************)
CartProducts ==
    { [id |-> "p1", price |-> 2000], [id |-> "p1", price |-> 2500],
      [id |-> "p2", price |-> 3000], [id |-> "p3", price |-> 1000] }

CartProductIds == { p.id : p \in CartProducts } \cup {"p9"}
AddQuantities == 1 .. 2

NextCart ==
    \/ \E product \in CartProducts, quantity \in AddQuantities :
            /\ TotalItemsOf(items) + quantity <= MaxCartQty
            /\ CartStep(addItem(product, quantity))
    \/ \E productId \in CartProductIds : CartStep(removeItem(productId))
    \/ \E productId \in CartProductIds, quantity \in -1 .. MaxCartQty :
            CartStep(updateQuantity(productId, quantity))
    \/ CartStep(clearCart)
    \/ CartStep(toggleCart)

SpecCart == Init /\ [][NextCart]_vars

C10_OnePairPerProduct ==
    \A i, j \in DOMAIN items : i # j => items[i].product.id # items[j].product.id

C10_AddExistingStep ==
    \A product \in CartProducts, quantity \in AddQuantities :
        ( /\ addItem(product, quantity)
          /\ \E i \in DOMAIN items : items[i].product.id = product.id )
        => /\ Len(items') = Len(items)
           /\ \A i \in DOMAIN items :
                 items'[i] = IF items[i].product.id = product.id
                             THEN [product |-> items[i].product,
                                   quantity |-> items[i].quantity + quantity]
                             ELSE items[i]

\* C10: from the empty cart, after any sequence of addItem, removeItem,
\* updateQuantity and clearCart no two cart items have the same product id;
\* addItem of a product that is in the cart adds the quantity to its pair
\* and appends nothing.
C10_CartHasOnePairPerProduct == []C10_OnePairPerProduct /\ [][C10_AddExistingStep]_vars

\* C10 witness: a cart of two products in which the first pair was added to.
C10_Witness ==
    /\ Len(items) = 2
    /\ items[1].product.id = "p1" /\ items[1].quantity = 2
    /\ items[2].product.id = "p2" /\ items[2].quantity = 1

\* the sums over the cart items whose index is in idx
RECURSIVE C16_Quantity(_, _)
C16_Quantity(cart, idx) ==
    IF idx = {} THEN 0
    ELSE LET i == CHOOSE i \in idx : TRUE
         IN  cart[i].quantity + C16_Quantity(cart, idx \ {i})

RECURSIVE C16_Price(_, _)
C16_Price(cart, idx) ==
    IF idx = {} THEN 0
    ELSE LET i == CHOOSE i \in idx : TRUE
         IN  cart[i].product.price * cart[i].quantity + C16_Price(cart, idx \ {i})

C16_TotalsAreSums ==
    /\ getTotalItems = C16_Quantity(items, DOMAIN items)
    /\ getTotalPrice = C16_Price(items, DOMAIN items)

C16_AddStep ==
    \A product \in CartProducts, quantity \in AddQuantities :
        addItem(product, quantity) =>
            /\ getTotalItems' = getTotalItems + quantity
            /\ \A i \in DOMAIN items :
                  items[i].product.id # product.id =>
                      (i \in DOMAIN items' /\ items'[i] = items[i])

C16_RemoveStep ==
    \A productId \in CartProductIds :
        removeItem(productId) =>
            getTotalItems' = getTotalItems
                - C16_Quantity(items, {i \in DOMAIN items : items[i].product.id = productId})

C16_ClearStep == clearCart => (getTotalItems' = 0 /\ getTotalPrice' = 0)

C16_ToggleStep == toggleCart => (items' = items /\ isOpen' = ~isOpen)

\* C16: getTotalItems() is the sum of the quantities and getTotalPrice()
\* the sum of product.price * quantity over the cart; addItem(p, q) raises
\* getTotalItems() by exactly q and leaves every other item in its place;
\* removeItem(id) lowers it by the quantity of the removed item; clearCart()
\* makes both totals 0; toggleCart changes only isOpen.
C16_CartTotals ==
    /\ []C16_TotalsAreSums
    /\ [][C16_AddStep /\ C16_RemoveStep /\ C16_ClearStep /\ C16_ToggleStep]_vars

\* C16 witness: an open cart of two products, three pieces, 70.00 in all.
C16_Witness ==
    /\ isOpen
    /\ Len(items) = 2 /\ items[1].quantity = 2 /\ items[2].quantity = 1
(***************************************************************************)
(* The product list of the shop                                            *)
(***************************************************************************)
ShopPool ==
    { [id |-> "1", name |-> <<"A", "b">>, description |-> <<"a">>, brand |-> <<"A">>,
       category |-> "c1", price |-> 1000, condition |-> "good", inStock |-> TRUE,
       rating |-> 4, createdAt |-> 1],
      [id |-> "2", name |-> <<"a", "a">>, description |-> <<"b">>, brand |-> <<"B">>,
       category |-> "c2", price |-> 2000, condition |-> "fair", inStock |-> FALSE,
       rating |-> 4, createdAt |-> 3],
      [id |-> "3", name |-> <<"b">>, description |-> <<"a", "B">>, brand |-> <<"A">>,
       category |-> "c1", price |-> 2000, condition |-> "good", inStock |-> TRUE,
       rating |-> 5, createdAt |-> 2] }

\* lists of different products of the pool
ShopLists ==
    { l \in UNION { [1 .. n -> ShopPool] : n \in 0 .. MaxShopProducts } :
        \A i, j \in DOMAIN l : i # j => l[i].id # l[j].id }

FilterInputs ==
    { [category |-> "c1"], [category |-> ""],
      [priceRange |-> <<2000, 2000>>], [priceRange |-> DefaultPriceRange],
      [condition |-> <<"good">>], [condition |-> <<>>],
      [brand |-> << <<"A">> >>], [brand |-> <<>>],
      [inStock |-> TRUE], [inStock |-> FALSE] }

SearchInputs == { <<>>, <<"a", "B">>, <<"B">> }

ShopIds == { p.id : p \in ShopPool }

NextShop ==
    \/ \E l \in ShopLists : StoreStep(setProducts(l))
    \/ \E id \in ShopIds : StoreStep(deleteProduct(id))
    \/ \E f \in FilterInputs : StoreStep(updateFilters(f))
    \/ \E by \in SortKinds : StoreStep(setSortBy(by))
    \/ \E q \in SearchInputs : StoreStep(setSearchQuery(q))
    \/ StoreStep(getFilteredProducts)

SpecShop == Init /\ [][NextShop]_vars

\* the products of the pool a search query finds: "aB" is in the name of
\* product 1 ("Ab") and in the description of product 3 ("aB"); every
\* product has a "b" or a "B" somewhere
C17_Found(query) ==
    CASE query = <<"a", "B">> -> {"1", "3"}
      [] query = <<"B">> -> {"1", "2", "3"}
      [] OTHER -> {}

C17_Matches(product) ==
    /\ searchQuery = <<>> \/ product.id \in C17_Found(searchQuery)
    /\ filters.category = "" \/ product.category = filters.category
    /\ filters.priceRange[1] <= product.price
    /\ product.price <= filters.priceRange[2]
    /\ filters.condition = <<>>
         \/ \E i \in DOMAIN filters.condition : filters.condition[i] = product.condition
    /\ filters.brand = <<>>
         \/ \E i \in DOMAIN filters.brand : filters.brand[i] = product.brand
    /\ filters.inStock => product.inStock

\* the place of a product of the pool in the order of the names:
\* "aa" (2) < "Ab" (1) < "b" (3)
C17_NameRank(product) == CASE product.id = "2" -> 1 [] product.id = "1" -> 2 [] OTHER -> 3

C17_InOrder(a, b) ==
    CASE sortBy = "name" -> C17_NameRank(a) <= C17_NameRank(b)
      [] sortBy = "price-low" -> a.price <= b.price
      [] sortBy = "price-high" -> a.price >= b.price
      [] sortBy = "rating" -> a.rating >= b.rating
      [] sortBy = "newest" -> a.createdAt >= b.createdAt
      [] OTHER -> TRUE

C17_IsResult(result) ==
    LET kept == {i \in DOMAIN storeProducts : C17_Matches(storeProducts[i])}
    IN  /\ Len(result) = Cardinality(kept)
        /\ \A i \in kept : \E j \in DOMAIN result : result[j] = storeProducts[i]
        /\ \A j \in DOMAIN result : \E i \in kept : result[j] = storeProducts[i]
        /\ \A j, k \in DOMAIN result : j # k => result[j].id # result[k].id
        /\ \A j, k \in DOMAIN result : j < k => C17_InOrder(result[j], result[k])

C17_ReturnsMatchingSorted == C17_IsResult(FilteredProducts)

C17_ReturnStep ==
    filtered' # filtered =>
        /\ C17_IsResult(filtered')
        /\ storeProducts' = storeProducts
        /\ filters' = filters
        /\ sortBy' = sortBy
        /\ searchQuery' = searchQuery

\* C17: in every state of the store getFilteredProducts() returns exactly
\* the products that pass every active filter (search in name, description
\* or brand regardless of case, category, price range with both ends,
\* condition, brand, inStock), each once, in the order of sortBy; and a
\* call changes neither the product list nor filters, sortBy or searchQuery.
C17_FilteredProducts == []C17_ReturnsMatchingSorted /\ [][C17_ReturnStep]_vars

\* C17 witness: a search for "aB" by price, highest first, has returned
\* products 3 and 1 of a store that lists 1, 2, 3.
C17_Witness ==
    /\ Len(storeProducts) = 3 /\ storeProducts[1].id = "1" /\ storeProducts[3].id = "3"
    /\ searchQuery = <<"a", "B">> /\ sortBy = "price-high"
    /\ filters.inStock
    /\ Len(filtered) = 2 /\ filtered[1].id = "3" /\ filtered[2].id = "1"
    /\ filtered = FilteredProducts

====
